---- MODULE Spec2Model ----
(***************************************************************************)
(* Model of the memex desktop storage layer: the promise-chain serializer  *)
(* (withDbLock), the schema initialisation, the import transaction, the    *)
(* wipe, and the read operations of db.ts / dbInsert.ts, running against   *)
(* one SQLite connection.  Every awaited database call is one step; the    *)
(* code between two awaits is atomic (single JavaScript thread).           *)
(*                                                                         *)
(* The store is external: any database call may reject.  A rejected call   *)
(* has no effect on the store (a rejected INSERT inserts nothing, a        *)
(* rejected COMMIT or ROLLBACK leaves the transaction open).               *)
(***************************************************************************)
EXTENDS Integers, Sequences, FiniteSets, Bags, TLC

\* ---------------------------------------------------------------------
\* Bounds and program constants
\* ---------------------------------------------------------------------

\* number of withDbLock calls made in one run
MaxOps == 3

\* number of database calls the store rejects in one run
MaxFaults == 2

\* number of further initDatabase() calls made in one run
MaxInitCalls == 2

\* db.ts:281  one day, in the time unit of the stored timestamps
oneDayMs == 10

\* dbInsert.ts:4
MAX_IMPORT_RETRIES == 6

\* dbInsert.ts:5
IMPORT_RETRY_DELAY_MS == 500

\* db.ts:673
CLEAR_RETRY_DELAY_MS == 500

\* db.ts:672
MAX_CLEAR_RETRIES == 6

\* ---------------------------------------------------------------------
\* Canonical input (packages/core types.ts, produced by the parsers)
\* ---------------------------------------------------------------------

\* ParsedMessage as the parsers build it: id is `${uuid}_${msgUuid}`,
\* conversationId is the conversation's uuid.
ParsedMessage(uuid, msgUuid, sender, content, createdAt) ==
  [id |-> <<uuid, msgUuid>>, conversationId |-> uuid, sender |-> sender,
   content |-> content, createdAt |-> createdAt]

\* ParsedConversation as the parsers build it: messageCount = messages.length.
ParsedConversation(uuid, source, title, createdAt, messages) ==
  [id |-> uuid, source |-> source, title |-> title, createdAt |-> createdAt,
   updatedAt |-> createdAt, messageCount |-> Len(messages), messages |-> messages]

\* Texts are sequences of word tokens (as the index tokenizer folds them).
SalaryText == <<"salary", "increase">>
WeatherText == <<"weather", "today">>
BonusText == <<"bonus">>
BudgetTitle == <<"budget", "planning">>
PlansTitle == <<"plans">>

\* A first export of conversation c1 with two messages.
BatchFirst ==
  << ParsedConversation("c1", "claude", BudgetTitle, 10,
       << ParsedMessage("c1", "m1", "human", SalaryText, 10),
          ParsedMessage("c1", "m2", "assistant", WeatherText, 20) >>) >>

\* A later export of c1: new title, m1 edited, m2 gone.
BatchEdited ==
  << ParsedConversation("c1", "claude", PlansTitle, 10,
       << ParsedMessage("c1", "m1", "human", BonusText, 10) >>) >>

\* An export with two conversations.
BatchTwo ==
  << ParsedConversation("c2", "chatgpt", BudgetTitle, 30,
       << ParsedMessage("c2", "m1", "human", WeatherText, 30) >>),
     ParsedConversation("c1", "claude", BudgetTitle, 10,
       << ParsedMessage("c1", "m1", "human", SalaryText, 10) >>) >>

Batches == {BatchFirst, BatchEdited, BatchTwo}

\* An export whose conversation c1 has "tax" in its title only and whose
\* conversation c2 has it five times in one message.
BatchRanking ==
  << ParsedConversation("c1", "claude", <<"Tax", "planning">>, 10,
       << ParsedMessage("c1", "m1", "human", WeatherText, 10) >>),
     ParsedConversation("c2", "chatgpt", PlansTitle, 20,
       << ParsedMessage("c2", "m1", "human", <<"tax", "tax", "tax", "tax", "tax">>, 30) >>) >>

\* An export whose two conversations say the same thing at the same time.
BatchTies ==
  << ParsedConversation("c1", "claude", BudgetTitle, 10,
       << ParsedMessage("c1", "m1", "human", <<"pay">>, 20) >>),
     ParsedConversation("c2", "chatgpt", PlansTitle, 10,
       << ParsedMessage("c2", "m1", "human", <<"pay">>, 20),
          ParsedMessage("c2", "m2", "assistant", <<"taxtax">>, 0),
          ParsedMessage("c2", "m3", "human", <<"tax">>, 0) >>) >>

\* Date.now() when getActivityCountByDay runs
Clock == {35}

\* how far the local clock is ahead of UTC
TimeZones == {-3, 0, 3}

\* queries as the user types them (strings are sequences of characters)
Queries ==
  {<<"s", "a", "l", "a", "r", "y">>, <<"b", "o", "n", "u", "s">>}

\* ---------------------------------------------------------------------
\* Numbers (JavaScript number arguments)
\* ---------------------------------------------------------------------

\* A number argument: undefined, NaN, an infinity, or a finite value kept
\* as twice its value (so that halves are exact).
Undefined == [kind |-> "undefined", twice |-> 0]
NaN == [kind |-> "NaN", twice |-> 0]
Infinity == [kind |-> "Infinity", twice |-> 0]
NegInfinity == [kind |-> "-Infinity", twice |-> 0]
Num(n) == [kind |-> "finite", twice |-> 2 * n]
Halves(n) == [kind |-> "finite", twice |-> n]

\* Number.isFinite(x)
IsFinite(x) == x.kind = "finite"

\* typeof x === "number"
IsNumber(x) == x.kind # "undefined"

IsNaN(x) == x.kind \in {"NaN", "undefined"}

\* a <= b for numbers other than NaN
NumLe(a, b) ==
  \/ a.kind = "-Infinity"
  \/ b.kind = "Infinity"
  \/ (a.kind = "finite" /\ b.kind = "finite" /\ a.twice <= b.twice)

\* Math.floor
MathFloor(x) ==
  IF IsNaN(x) THEN NaN
  ELSE IF IsFinite(x) THEN Num(x.twice \div 2)
  ELSE x

\* Math.min / Math.max of two numbers
MathMin(a, b) == IF IsNaN(a) \/ IsNaN(b) THEN NaN ELSE IF NumLe(a, b) THEN a ELSE b
MathMax(a, b) == IF IsNaN(a) \/ IsNaN(b) THEN NaN ELSE IF NumLe(a, b) THEN b ELSE a

\* the integer a whole finite number stands for
Int32(x) == x.twice \div 2

\* a limit taken as given
SafeLimitUnclamped(limit, default) ==
  IF IsFinite(limit) THEN Int32(MathFloor(limit)) ELSE default

\* Number.isFinite(opts.limit)
\*   ? Math.max(1, Math.min(100, Math.floor(opts.limit))) : default
SafeLimit(limit, default) ==
  IF IsFinite(limit)
  THEN Int32(MathMax(Num(1), MathMin(Num(100), MathFloor(limit))))
  ELSE default

\* Number.isFinite(opts.offset) ? Math.max(0, Math.floor(opts.offset)) : 0
SafeOffset(offset) ==
  IF IsFinite(offset) THEN Int32(MathMax(Num(0), MathFloor(offset))) ELSE 0

\* SearchOptions with nothing set (source: "" is as falsy as undefined)
NoOpts ==
  [source |-> "", dateFrom |-> Undefined, dateTo |-> Undefined,
   limit |-> Undefined, offset |-> Undefined, sort |-> "undefined"]

\* ---------------------------------------------------------------------
\* The embedded store: three tables seen through one connection
\* ---------------------------------------------------------------------

TableNames == {"conversations", "messages", "messages_fts"}

EmptyFun == [x \in {} |-> x]

\* A data store: which tables exist (and with which schema) and their rows.
\* conversations and messages are keyed by primary key; messages_fts has
\* no key and is a bag of entries.
EmptyStore ==
  [tables |-> [t \in TableNames |-> "absent"],
   conversations |-> EmptyFun,
   messages |-> EmptyFun,
   fts |-> EmptyBag]

\* The connection: the rows it sees, whether a transaction is open, and
\* the committed rows to which a ROLLBACK returns.
NewConnection(store) == [inTxn |-> FALSE, view |-> store, saved |-> store]

Committed(c) == IF c.inTxn THEN c.saved ELSE c.view

\* A write outside a transaction commits at once.
WithView(c, store) ==
  IF c.inTxn THEN [c EXCEPT !.view = store]
  ELSE [c EXCEPT !.view = store, !.saved = store]

HasTable(store, t) == store.tables[t] = "current"

\* --- statements of runImportTransaction ------------------------------

\* INSERT OR REPLACE INTO conversations (...)
InsertOrReplaceConversation(store, conv) ==
  LET row == [id |-> conv.id, source |-> conv.source, title |-> conv.title,
              created_at |-> conv.createdAt, updated_at |-> conv.updatedAt,
              message_count |-> conv.messageCount]
  IN [store EXCEPT !.conversations =
        [k \in (DOMAIN store.conversations) \cup {conv.id} |->
           IF k = conv.id THEN row ELSE store.conversations[k]]]

\* an import that leaves the old index rows of the conversation in place
KeepFtsByConversation(store, convId) == store

\* a re-import of a conversation that clears the whole index
DeleteFtsOfEveryConversation(store, convId) ==
  IF \E e \in DOMAIN store.fts : e.conversation_id = convId
  THEN [store EXCEPT !.fts = EmptyBag]
  ELSE store

\* DELETE FROM messages_fts WHERE conversation_id = $1
DeleteFtsByConversation(store, convId) ==
  LET keep == {e \in DOMAIN store.fts : e.conversation_id # convId}
  IN [store EXCEPT !.fts = [e \in keep |-> store.fts[e]]]

\* an import that replaces the message set of the conversation
InsertOnlyMessage(store, msg) ==
  LET row == [id |-> msg.id, conversation_id |-> msg.conversationId,
              sender |-> msg.sender, content |-> msg.content,
              created_at |-> msg.createdAt]
      others == {k \in DOMAIN store.messages :
                   store.messages[k].conversation_id # msg.conversationId}
  IN [store EXCEPT !.messages =
        [k \in others \cup {msg.id} |->
           IF k = msg.id THEN row ELSE store.messages[k]]]

\* INSERT OR REPLACE INTO messages (...)
InsertOrReplaceMessage(store, msg) ==
  LET row == [id |-> msg.id, conversation_id |-> msg.conversationId,
              sender |-> msg.sender, content |-> msg.content,
              created_at |-> msg.createdAt]
  IN [store EXCEPT !.messages =
        [k \in (DOMAIN store.messages) \cup {msg.id} |->
           IF k = msg.id THEN row ELSE store.messages[k]]]

\* an index row written without the conversation's title
FtsEntryNoTitle(conv, msg) ==
  [content |-> msg.content, title |-> <<>>,
   conversation_id |-> msg.conversationId, message_id |-> msg.id]

\* the row of INSERT INTO messages_fts (content, title, conversation_id, message_id)
FtsEntry(conv, msg) ==
  [content |-> msg.content, title |-> conv.title,
   conversation_id |-> msg.conversationId, message_id |-> msg.id]

\* INSERT INTO messages_fts VALUES (...)
InsertFts(store, entry) ==
  [store EXCEPT !.fts = @ (+) SetToBag({entry})]

\* the message and index rows of the first n messages of conv
RECURSIVE ImportedMessages(_, _, _)
ImportedMessages(store, conv, n) ==
  IF n = 0 THEN store
  ELSE LET msg == conv.messages[n]
       IN InsertFts(InsertOrReplaceMessage(ImportedMessages(store, conv, n - 1), msg),
                    FtsEntry(conv, msg))

\* the rows of the first n conversations of the batch
RECURSIVE ImportedConversations(_, _, _)
ImportedConversations(store, conversations, n) ==
  IF n = 0 THEN store
  ELSE LET conv == conversations[n]
           s1 == InsertOrReplaceConversation(
                   ImportedConversations(store, conversations, n - 1), conv)
       IN ImportedMessages(DeleteFtsByConversation(s1, conv.id), conv, Len(conv.messages))

\* the store a committed runImportTransaction(db, conversations) leaves
runImportTransaction(store, conversations) ==
  ImportedConversations(store, conversations, Len(conversations))

\* --- statements of clearAllData --------------------------------------

\* DELETE FROM messages_fts
DeleteAllFts(store) == [store EXCEPT !.fts = EmptyBag]

\* a wipe that leaves the message rows in place
KeepAllMessages(store) == store

\* DELETE FROM messages
DeleteAllMessages(store) == [store EXCEPT !.messages = EmptyFun]

\* a wipe that leaves the conversation rows in place
KeepAllConversations(store) == store

\* DELETE FROM conversations
DeleteAllConversations(store) == [store EXCEPT !.conversations = EmptyFun]

\* --- statements of initDatabase --------------------------------------

\* CREATE TABLE IF NOT EXISTS t
CreateTable(store, t) ==
  IF store.tables[t] = "absent"
  THEN [store EXCEPT !.tables[t] = "current"]
  ELSE store

\* a DROP TABLE that leaves the rows behind
DropTableKeepRows(store, t) == [store EXCEPT !.tables[t] = "absent"]

\* DROP TABLE IF EXISTS t
DropTable(store, t) ==
  LET s1 == [store EXCEPT !.tables[t] = "absent"]
  IN CASE t = "conversations" -> [s1 EXCEPT !.conversations = EmptyFun]
       [] t = "messages" -> [s1 EXCEPT !.messages = EmptyFun]
       [] OTHER -> [s1 EXCEPT !.fts = EmptyBag]

\* a back-fill that leaves the title column empty
BackfillWithoutTitle(store) ==
  LET joined == {m \in DOMAIN store.messages :
                   store.messages[m].conversation_id \in DOMAIN store.conversations}
      entry(m) == [content |-> store.messages[m].content,
                   title |-> <<>>,
                   conversation_id |-> store.messages[m].conversation_id,
                   message_id |-> m]
  IN [store EXCEPT !.fts = @ (+) SetToBag({entry(m) : m \in joined})]

\* INSERT INTO messages_fts SELECT ... FROM messages m JOIN conversations c
Backfill(store) ==
  LET joined == {m \in DOMAIN store.messages :
                   store.messages[m].conversation_id \in DOMAIN store.conversations}
      entry(m) == [content |-> store.messages[m].content,
                   title |-> store.conversations[store.messages[m].conversation_id].title,
                   conversation_id |-> store.messages[m].conversation_id,
                   message_id |-> m]
  IN [store EXCEPT !.fts = @ (+) SetToBag({entry(m) : m \in joined})]


\* --- the outcome of one database call --------------------------------

\* what the statement does on the store (err: the store's own refusal)
Ok(c) == [err |-> "none", conn |-> c, fault |-> FALSE]
Err(c, e) == [err |-> e, conn |-> c, fault |-> FALSE]

\* the call is rejected for a reason outside the statement
Fault(c, e) == [err |-> e, conn |-> c, fault |-> TRUE]

\* BEGIN IMMEDIATE
Begin(c) ==
  IF c.inTxn THEN Err(c, "other")
  ELSE Ok([c EXCEPT !.inTxn = TRUE, !.saved = c.view])

\* COMMIT
Commit(c) ==
  IF c.inTxn THEN Ok([c EXCEPT !.inTxn = FALSE, !.saved = c.view])
  ELSE Err(c, "other")

\* ROLLBACK
Rollback(c) ==
  IF c.inTxn THEN Ok([c EXCEPT !.inTxn = FALSE, !.view = c.saved])
  ELSE Err(c, "other")

\* a statement that needs table t with the current columns
Write(c, t, store) ==
  IF HasTable(c.view, t) THEN Ok(WithView(c, store)) ELSE Err(c, "other")

\* a statement that needs table t to exist
Touch(c, t, store) ==
  IF c.view.tables[t] # "absent" THEN Ok(WithView(c, store)) ELSE Err(c, "other")

\* isDbLockedError / isBusyOrLocked
isDbLockedError(e) == e = "busy"

\* ---------------------------------------------------------------------
\* Program state
\* ---------------------------------------------------------------------

VARIABLES
  db,           \* db.ts:7   TRUE once Database.load has resolved
  conn,         \* the SQLite connection behind the handle, with the file's rows
  dbLock,       \* db.ts:27  the operation whose settling releases the chain (0: resolved)
  initPromise,  \* db.ts:53  the operation created by initDatabase (0: null)
  ops,          \* every withDbLock call so far, in call order
  mainPc,       \* position of the startup script
  issuer,       \* who issued the latest database call (0: nobody yet, -1: startup script)
  faults,       \* number of database calls rejected by the store so far
  initCalls,    \* the promise each initDatabase() call returned, in call order
  resolved      \* db.ts:495,499  the results searchMessages returned without entering the chain

vars == <<db, conn, dbLock, initPromise, ops, mainPc, issuer, faults, initCalls, resolved>>

\* Database.execute / Database.select: the call does what the statement
\* does, or rejects (lock-busy or another error) without effect.
Execute(r) ==
  {r} \cup (IF faults < MaxFaults
            THEN {Fault(conn, "busy"), Fault(conn, "other")} ELSE {})

Settled == {"fulfilled", "rejected"}

\* the arguments of a call (those its function does not take left empty)
NoArg == [batch |-> <<>>, query |-> <<>>, conv |-> "", opts |-> NoOpts, days |-> Undefined]

\* the promise returned by withDbLock(fn), with the position of fn's body
NewOp(kind, arg, prev) ==
  [kind |-> kind, arg |-> arg, prev |-> prev, status |-> "queued",
   pc |-> "start", attempt |-> 0, ci |-> 1, mi |-> 1, err |-> "none",
   pre |-> EmptyStore, reads |-> <<>>, waited |-> 0, inner |-> 0,
   inflight |-> 0]

OpIds == 1..Len(ops)

Running(i) == ops[i].status = "running"

\* chain that lets an operation start only after a success of its predecessor
AdmitsAfterSuccess(p) == IF p = 0 THEN TRUE ELSE ops[p].status = "fulfilled"

\* chain that does not wait for its predecessor
AdmitsAlways(p) == TRUE

\* dbLock.then(fn, fn) on dbLock = next.then(() => {}, () => {}):
\* fn may start once the operation p it was chained on has settled,
\* whatever its outcome.
Admits(p) == IF p = 0 THEN TRUE ELSE ops[p].status \in Settled

\* a chain whose tail is not advanced
withDbLockStaleTail(kind, arg) ==
  /\ Len(ops) < MaxOps
  /\ ops' = Append(ops, NewOp(kind, arg, dbLock))
  /\ dbLock' = dbLock

\* withDbLock(fn): chain fn on the tail and make its settling the new tail
withDbLock(kind, arg) ==
  /\ Len(ops) < MaxOps
  /\ ops' = Append(ops, NewOp(kind, arg, dbLock))
  /\ dbLock' = Len(ops) + 1

SetOp(i, o) == ops' = [ops EXCEPT ![i] = o]

Reject(o, e) == [o EXCEPT !.status = "rejected", !.pc = "done", !.err = e]
Fulfil(o) == [o EXCEPT !.status = "fulfilled", !.pc = "done"]

\* the first statement of each operation body after `await getDb()`
FirstPc(kind) ==
  CASE kind = "insertConversations" -> "pragma"
    [] kind = "clearAllData" -> "pragma"
    [] kind = "initDatabase" -> "wal"
    [] kind = "getStats" -> "countConvs"
    [] kind = "searchMessages" -> "queries"
    [] kind = "reentrant" -> "enter"
    [] OTHER -> "select"

\* The chained fn starts: it runs up to `await getDb()` / `await rawGetDb()`.
StartOp(i) ==
  /\ i \in OpIds
  /\ ops[i].status = "queued"
  /\ Admits(ops[i].prev)
  /\ SetOp(i, [ops[i] EXCEPT !.status = "running", !.pc = "getDb", !.pre = conn.view])
  /\ UNCHANGED <<db, conn, dbLock, initPromise, mainPc, initCalls, resolved, issuer, faults>>

\* rawGetDb: Database.load on first use, the cached handle afterwards
rawGetDb(i) ==
  /\ i \in OpIds /\ Running(i) /\ ops[i].pc = "getDb"
  /\ \/ /\ db' = TRUE
        /\ faults' = faults
        /\ SetOp(i, [ops[i] EXCEPT !.pc = FirstPc(ops[i].kind)])
     \/ /\ ~db /\ faults < MaxFaults
        /\ db' = db
        /\ faults' = faults + 1
        /\ SetOp(i, Reject(ops[i], "other"))
  /\ UNCHANGED <<conn, dbLock, initPromise, mainPc, initCalls, resolved, issuer>>

\* ---------------------------------------------------------------------
\* insertConversations / runImportTransaction (dbInsert.ts)
\* ---------------------------------------------------------------------

\* a retry loop without the attempt limit
ImportFailureUnbounded(o, e) ==
  IF ~isDbLockedError(e)
  THEN Reject(o, e)
  ELSE [o EXCEPT !.attempt = @ + 1, !.pc = "backoff", !.err = "none",
                 !.ci = 1, !.mi = 1]

\* the catch of the retry loop: retry a lock-busy error while attempts remain
ImportFailure(o, e) ==
  IF ~isDbLockedError(e) \/ o.attempt = MAX_IMPORT_RETRIES - 1
  THEN Reject(o, e)
  ELSE [o EXCEPT !.attempt = @ + 1, !.pc = "backoff", !.err = "none",
                 !.ci = 1, !.mi = 1]

AtImport(i, pc) ==
  /\ i \in OpIds /\ Running(i)
  /\ ops[i].kind = "insertConversations" /\ ops[i].pc = pc

CurConv(o) == o.arg.batch[o.ci]
CurMsg(o) == CurConv(o).messages[o.mi]

\* after the last message of conversation ci: the next conversation or COMMIT
NextConv(o) ==
  IF o.ci < Len(o.arg.batch)
  THEN [o EXCEPT !.ci = @ + 1, !.mi = 1, !.pc = "conv"]
  ELSE [o EXCEPT !.pc = "commit"]

Issue(i, r) ==
  /\ conn' = r.conn
  /\ issuer' = i
  /\ faults' = IF r.fault THEN faults + 1 ELSE faults

\* await new Promise(r => setTimeout(r, IMPORT_RETRY_DELAY_MS * attempt))
ImportBackoff(i) ==
  /\ AtImport(i, "backoff")
  /\ SetOp(i, [ops[i] EXCEPT !.pc = "pragma",
                            !.waited = @ + IMPORT_RETRY_DELAY_MS * ops[i].attempt])
  /\ UNCHANGED <<db, conn, dbLock, initPromise, mainPc, initCalls, resolved, issuer, faults>>

\* PRAGMA busy_timeout = 30000
ImportPragma(i) ==
  /\ AtImport(i, "pragma")
  /\ \E r \in Execute(Ok(conn)) :
       /\ Issue(i, r)
       /\ SetOp(i, IF r.err = "none" THEN [ops[i] EXCEPT !.pc = "begin"]
                   ELSE ImportFailure(ops[i], r.err))
  /\ UNCHANGED <<db, dbLock, initPromise, mainPc, initCalls, resolved>>

\* BEGIN IMMEDIATE (outside the try: a failure is not rolled back)
ImportBegin(i) ==
  /\ AtImport(i, "begin")
  /\ \E r \in Execute(Begin(conn)) :
       /\ Issue(i, r)
       /\ SetOp(i, IF r.err = "none"
                   THEN (IF Len(ops[i].arg.batch) = 0
                         THEN [ops[i] EXCEPT !.pc = "commit"]
                         ELSE [ops[i] EXCEPT !.pc = "conv", !.ci = 1, !.mi = 1])
                   ELSE ImportFailure(ops[i], r.err))
  /\ UNCHANGED <<db, dbLock, initPromise, mainPc, initCalls, resolved>>

\* INSERT OR REPLACE INTO conversations
ImportConversation(i) ==
  /\ AtImport(i, "conv")
  /\ \E r \in Execute(Write(conn, "conversations",
                        InsertOrReplaceConversation(conn.view, CurConv(ops[i])))) :
       /\ Issue(i, r)
       /\ SetOp(i, IF r.err = "none" THEN [ops[i] EXCEPT !.pc = "delfts"]
                   ELSE [ops[i] EXCEPT !.pc = "rollback", !.err = r.err])
  /\ UNCHANGED <<db, dbLock, initPromise, mainPc, initCalls, resolved>>

\* DELETE FROM messages_fts WHERE conversation_id = conv.id
ImportDeleteFts(i) ==
  /\ AtImport(i, "delfts")
  /\ \E r \in Execute(Touch(conn, "messages_fts",
                        DeleteFtsByConversation(conn.view, CurConv(ops[i]).id))) :
       /\ Issue(i, r)
       /\ SetOp(i, IF r.err = "none"
                   THEN (IF Len(CurConv(ops[i]).messages) = 0
                         THEN NextConv(ops[i])
                         ELSE [ops[i] EXCEPT !.pc = "msg", !.mi = 1])
                   ELSE [ops[i] EXCEPT !.pc = "rollback", !.err = r.err])
  /\ UNCHANGED <<db, dbLock, initPromise, mainPc, initCalls, resolved>>

\* INSERT OR REPLACE INTO messages
ImportMessage(i) ==
  /\ AtImport(i, "msg")
  /\ \E r \in Execute(Write(conn, "messages",
                        InsertOrReplaceMessage(conn.view, CurMsg(ops[i])))) :
       /\ Issue(i, r)
       /\ SetOp(i, IF r.err = "none" THEN [ops[i] EXCEPT !.pc = "fts"]
                   ELSE [ops[i] EXCEPT !.pc = "rollback", !.err = r.err])
  /\ UNCHANGED <<db, dbLock, initPromise, mainPc, initCalls, resolved>>

\* INSERT INTO messages_fts
ImportFts(i) ==
  /\ AtImport(i, "fts")
  /\ \E r \in Execute(Write(conn, "messages_fts",
                        InsertFts(conn.view, FtsEntry(CurConv(ops[i]), CurMsg(ops[i]))))) :
       /\ Issue(i, r)
       /\ SetOp(i, IF r.err = "none"
                   THEN (IF ops[i].mi < Len(CurConv(ops[i]).messages)
                         THEN [ops[i] EXCEPT !.mi = @ + 1, !.pc = "msg"]
                         ELSE NextConv(ops[i]))
                   ELSE [ops[i] EXCEPT !.pc = "rollback", !.err = r.err])
  /\ UNCHANGED <<db, dbLock, initPromise, mainPc, initCalls, resolved>>

\* COMMIT, then return the counts
ImportCommit(i) ==
  /\ AtImport(i, "commit")
  /\ \E r \in Execute(Commit(conn)) :
       /\ Issue(i, r)
       /\ SetOp(i, IF r.err = "none" THEN Fulfil(ops[i])
                   ELSE [ops[i] EXCEPT !.pc = "rollback", !.err = r.err])
  /\ UNCHANGED <<db, dbLock, initPromise, mainPc, initCalls, resolved>>

\* catch: ROLLBACK (its failure is only logged), rethrow, retry decision
ImportRollback(i) ==
  /\ AtImport(i, "rollback")
  /\ \E r \in Execute(Rollback(conn)) :
       /\ Issue(i, r)
       /\ SetOp(i, ImportFailure(ops[i], ops[i].err))
  /\ UNCHANGED <<db, dbLock, initPromise, mainPc, initCalls, resolved>>


\* ---------------------------------------------------------------------
\* clearAllData (db.ts)
\* ---------------------------------------------------------------------

AtClear(i, pc) ==
  /\ i \in OpIds /\ Running(i)
  /\ ops[i].kind = "clearAllData" /\ ops[i].pc = pc

\* a statement inside the try failed: remember the error, ROLLBACK next
ClearCatch(o, e) == [o EXCEPT !.pc = "rollback", !.err = e]

\* await new Promise(r => setTimeout(r, CLEAR_RETRY_DELAY_MS * attempt))
ClearBackoff(i) ==
  /\ AtClear(i, "backoff")
  /\ SetOp(i, [ops[i] EXCEPT !.pc = "pragma",
                            !.waited = @ + CLEAR_RETRY_DELAY_MS * ops[i].attempt])
  /\ UNCHANGED <<db, conn, dbLock, initPromise, mainPc, initCalls, resolved, issuer, faults>>

\* PRAGMA busy_timeout = 30000
ClearPragma(i) ==
  /\ AtClear(i, "pragma")
  /\ \E r \in Execute(Ok(conn)) :
       /\ Issue(i, r)
       /\ SetOp(i, IF r.err = "none" THEN [ops[i] EXCEPT !.pc = "cleanup"]
                   ELSE ClearCatch(ops[i], r.err))
  /\ UNCHANGED <<db, dbLock, initPromise, mainPc, initCalls, resolved>>

\* defensive ROLLBACK of a leftover transaction; its failure is ignored
ClearCleanup(i) ==
  /\ AtClear(i, "cleanup")
  /\ \E r \in Execute(Rollback(conn)) :
       /\ Issue(i, r)
       /\ SetOp(i, [ops[i] EXCEPT !.pc = "begin"])
  /\ UNCHANGED <<db, dbLock, initPromise, mainPc, initCalls, resolved>>

\* BEGIN IMMEDIATE
ClearBegin(i) ==
  /\ AtClear(i, "begin")
  /\ \E r \in Execute(Begin(conn)) :
       /\ Issue(i, r)
       /\ SetOp(i, IF r.err = "none" THEN [ops[i] EXCEPT !.pc = "delfts"]
                   ELSE ClearCatch(ops[i], r.err))
  /\ UNCHANGED <<db, dbLock, initPromise, mainPc, initCalls, resolved>>

\* DELETE FROM messages_fts
ClearDeleteFts(i) ==
  /\ AtClear(i, "delfts")
  /\ \E r \in Execute(Touch(conn, "messages_fts", DeleteAllFts(conn.view))) :
       /\ Issue(i, r)
       /\ SetOp(i, IF r.err = "none" THEN [ops[i] EXCEPT !.pc = "delmsgs"]
                   ELSE ClearCatch(ops[i], r.err))
  /\ UNCHANGED <<db, dbLock, initPromise, mainPc, initCalls, resolved>>

\* DELETE FROM messages
ClearDeleteMessages(i) ==
  /\ AtClear(i, "delmsgs")
  /\ \E r \in Execute(Touch(conn, "messages", DeleteAllMessages(conn.view))) :
       /\ Issue(i, r)
       /\ SetOp(i, IF r.err = "none" THEN [ops[i] EXCEPT !.pc = "delconvs"]
                   ELSE ClearCatch(ops[i], r.err))
  /\ UNCHANGED <<db, dbLock, initPromise, mainPc, initCalls, resolved>>

\* DELETE FROM conversations
ClearDeleteConversations(i) ==
  /\ AtClear(i, "delconvs")
  /\ \E r \in Execute(Touch(conn, "conversations", DeleteAllConversations(conn.view))) :
       /\ Issue(i, r)
       /\ SetOp(i, IF r.err = "none" THEN [ops[i] EXCEPT !.pc = "commit"]
                   ELSE ClearCatch(ops[i], r.err))
  /\ UNCHANGED <<db, dbLock, initPromise, mainPc, initCalls, resolved>>

\* COMMIT; return
ClearCommit(i) ==
  /\ AtClear(i, "commit")
  /\ \E r \in Execute(Commit(conn)) :
       /\ Issue(i, r)
       /\ SetOp(i, IF r.err = "none" THEN Fulfil(ops[i])
                   ELSE ClearCatch(ops[i], r.err))
  /\ UNCHANGED <<db, dbLock, initPromise, mainPc, initCalls, resolved>>

\* catch: ROLLBACK (failure ignored), then rethrow or retry
ClearRollback(i) ==
  /\ AtClear(i, "rollback")
  /\ \E r \in Execute(Rollback(conn)) :
       /\ Issue(i, r)
       /\ SetOp(i, IF ~isDbLockedError(ops[i].err) \/ ops[i].attempt = MAX_CLEAR_RETRIES - 1
                   THEN Reject(ops[i], ops[i].err)
                   ELSE [ops[i] EXCEPT !.attempt = @ + 1, !.pc = "backoff", !.err = "none"])
  /\ UNCHANGED <<db, dbLock, initPromise, mainPc, initCalls, resolved>>

\* ---------------------------------------------------------------------
\* initDatabase body (db.ts)
\* ---------------------------------------------------------------------

AtInit(i, pcs) ==
  /\ i \in OpIds /\ Running(i)
  /\ ops[i].kind = "initDatabase" /\ ops[i].pc \in pcs

\* one statement of the init body: on success go to pc `next`, else reject
InitStatement(i, r, next) ==
  /\ Issue(i, r)
  /\ SetOp(i, IF r.err = "none" THEN [ops[i] EXCEPT !.pc = next]
              ELSE Reject(ops[i], r.err))

\* PRAGMA journal_mode = WAL; PRAGMA busy_timeout = 30000
InitPragmas(i) ==
  /\ AtInit(i, {"wal", "busy"})
  /\ \E r \in Execute(Ok(conn)) :
       InitStatement(i, r, IF ops[i].pc = "wal" THEN "busy" ELSE "tableInfo")
  /\ UNCHANGED <<db, dbLock, initPromise, mainPc, initCalls, resolved>>

\* PRAGMA table_info(conversations); drop the three tables of an old schema
InitMigrate(i) ==
  /\ AtInit(i, {"tableInfo", "dropFts", "dropMessages", "dropConversations"})
  /\ LET pc == ops[i].pc IN
     \E r \in Execute(
          CASE pc = "tableInfo" -> Ok(conn)
            [] pc = "dropFts" -> Ok(WithView(conn, DropTable(conn.view, "messages_fts")))
            [] pc = "dropMessages" -> Ok(WithView(conn, DropTable(conn.view, "messages")))
            [] OTHER -> Ok(WithView(conn, DropTable(conn.view, "conversations")))) :
       InitStatement(i, r,
          CASE pc = "tableInfo" ->
                 (IF conn.view.tables["conversations"] = "legacy"
                  THEN "dropFts" ELSE "createConversations")
            [] pc = "dropFts" -> "dropMessages"
            [] pc = "dropMessages" -> "dropConversations"
            [] OTHER -> "createConversations")
  /\ UNCHANGED <<db, dbLock, initPromise, mainPc, initCalls, resolved>>

\* CREATE TABLE IF NOT EXISTS conversations / messages
InitCreateTables(i) ==
  /\ AtInit(i, {"createConversations", "createMessages"})
  /\ LET pc == ops[i].pc IN
     \E r \in Execute(
          IF pc = "createConversations"
          THEN Ok(WithView(conn, CreateTable(conn.view, "conversations")))
          ELSE Ok(WithView(conn, CreateTable(conn.view, "messages")))) :
       InitStatement(i, r,
          IF pc = "createConversations" THEN "createMessages" ELSE "ftsInfo")
  /\ UNCHANGED <<db, dbLock, initPromise, mainPc, initCalls, resolved>>

\* PRAGMA table_info(messages_fts); drop an index without title column;
\* CREATE VIRTUAL TABLE IF NOT EXISTS messages_fts
InitCreateFts(i) ==
  /\ AtInit(i, {"ftsInfo", "dropOldFts", "createFts"})
  /\ LET pc == ops[i].pc IN
     \E r \in Execute(
          CASE pc = "ftsInfo" -> Ok(conn)
            [] pc = "dropOldFts" -> Ok(WithView(conn, DropTable(conn.view, "messages_fts")))
            [] OTHER -> Ok(WithView(conn, CreateTable(conn.view, "messages_fts")))) :
       InitStatement(i, r,
          CASE pc = "ftsInfo" ->
                 (IF conn.view.tables["messages_fts"] = "legacy"
                  THEN "dropOldFts" ELSE "createFts")
            [] pc = "dropOldFts" -> "createFts"
            [] OTHER -> "countMessages")
  /\ UNCHANGED <<db, dbLock, initPromise, mainPc, initCalls, resolved>>

CountRows(f) == Cardinality(DOMAIN f)

\* the two COUNT(*) selects, then the back-fill when the index is empty
\* while messages exist
InitBackfill(i) ==
  /\ AtInit(i, {"countMessages", "countFts", "backfill"})
  /\ LET pc == ops[i].pc IN
     \E r \in Execute(
          CASE pc = "countMessages" -> Touch(conn, "messages", conn.view)
            [] pc = "countFts" -> Touch(conn, "messages_fts", conn.view)
            [] OTHER -> Write(conn, "messages_fts", Backfill(conn.view))) :
       /\ Issue(i, r)
       /\ SetOp(i,
            IF r.err # "none" THEN Reject(ops[i], r.err)
            ELSE CASE pc = "countMessages" ->
                        [ops[i] EXCEPT !.pc = "countFts",
                                       !.reads = <<CountRows(conn.view.messages)>>]
                   [] pc = "countFts" ->
                        [ops[i] EXCEPT !.pc =
                            IF ops[i].reads[1] > 0 /\ BagCardinality(conn.view.fts) = 0
                            THEN "backfill" ELSE "countConversations",
                          !.reads = Append(@, BagCardinality(conn.view.fts))]
                   [] OTHER -> [ops[i] EXCEPT !.pc = "countConversations"])
  /\ UNCHANGED <<db, dbLock, initPromise, mainPc, initCalls, resolved>>

\* SELECT COUNT(*) FROM conversations; the body returns
InitCount(i) ==
  /\ AtInit(i, {"countConversations"})
  /\ \E r \in Execute(Touch(conn, "conversations", conn.view)) :
       /\ Issue(i, r)
       /\ SetOp(i, IF r.err = "none" THEN Fulfil(ops[i]) ELSE Reject(ops[i], r.err))
  /\ UNCHANGED <<db, dbLock, initPromise, mainPc, initCalls, resolved>>


\* ---------------------------------------------------------------------
\* Strings (JavaScript / SQLite text functions used by the search)
\* ---------------------------------------------------------------------

\* A string is a sequence of one-character strings.
UpperCase ==
  <<"A", "B", "C", "D", "E", "F", "G", "H", "I", "J", "K", "L", "M",
    "N", "O", "P", "Q", "R", "S", "T", "U", "V", "W", "X", "Y", "Z">>

LowerCase ==
  <<"a", "b", "c", "d", "e", "f", "g", "h", "i", "j", "k", "l", "m",
    "n", "o", "p", "q", "r", "s", "t", "u", "v", "w", "x", "y", "z">>

Digits == {"0", "1", "2", "3", "4", "5", "6", "7", "8", "9"}

Range(s) == {s[k] : k \in DOMAIN s}

\* the characters of the word atoms that the stored texts are made of
Chars(w) ==
  CASE w = "salary" -> <<"s", "a", "l", "a", "r", "y">>
    [] w = "increase" -> <<"i", "n", "c", "r", "e", "a", "s", "e">>
    [] w = "weather" -> <<"w", "e", "a", "t", "h", "e", "r">>
    [] w = "today" -> <<"t", "o", "d", "a", "y">>
    [] w = "bonus" -> <<"b", "o", "n", "u", "s">>
    [] w = "budget" -> <<"b", "u", "d", "g", "e", "t">>
    [] w = "planning" -> <<"p", "l", "a", "n", "n", "i", "n", "g">>
    [] w = "plans" -> <<"p", "l", "a", "n", "s">>
    [] w = "Tax" -> <<"T", "a", "x">>
    [] w = "tax" -> <<"t", "a", "x">>
    [] w = "taxtax" -> <<"t", "a", "x", "t", "a", "x">>
    [] w = "pay" -> <<"p", "a", "y">>

\* the text of a sequence of words: the words joined by single spaces
RECURSIVE Str(_)
Str(text) ==
  IF Len(text) = 0 THEN <<>>
  ELSE IF Len(text) = 1 THEN Chars(text[1])
  ELSE Chars(text[1]) \o <<" ">> \o Str(Tail(text))

\* String.prototype.toLowerCase / SQL LOWER() on one character
LowerChar(c) ==
  IF \E k \in 1..26 : UpperCase[k] = c
  THEN LowerCase[CHOOSE k \in 1..26 : UpperCase[k] = c]
  ELSE c

\* String.prototype.toLowerCase / SQL LOWER()
Lower(s) == [k \in 1..Len(s) |-> LowerChar(s[k])]

IsSpace(c) == c \in {" ", "\t", "\n"}

\* String.prototype.trim
RECURSIVE Trim(_)
Trim(s) ==
  IF Len(s) = 0 THEN s
  ELSE IF IsSpace(s[1]) THEN Trim(Tail(s))
  ELSE IF IsSpace(s[Len(s)]) THEN Trim(SubSeq(s, 1, Len(s) - 1))
  ELSE s

\* [\p{L}\p{N}]
IsAlnum(c) == c \in Range(LowerCase) \cup Range(UpperCase) \cup Digits

\* s.match(/[\p{L}\p{N}]+/gu) ?? []: the maximal runs of letters and digits;
\* run is the run being read
RECURSIVE MatchAlnumRuns(_, _)
MatchAlnumRuns(s, run) ==
  IF Len(s) = 0 THEN (IF run = <<>> THEN <<>> ELSE <<run>>)
  ELSE IF IsAlnum(s[1]) THEN MatchAlnumRuns(Tail(s), Append(run, s[1]))
  ELSE (IF run = <<>> THEN <<>> ELSE <<run>>) \o MatchAlnumRuns(Tail(s), <<>>)

\* term.replace(/\*+$/g, "")
RECURSIVE StripTrailingStars(_)
StripTrailingStars(term) ==
  IF Len(term) > 0 /\ term[Len(term)] = "*"
  THEN StripTrailingStars(SubSeq(term, 1, Len(term) - 1))
  ELSE term

\* Array.prototype.join(" ")
RECURSIVE Join(_)
Join(terms) ==
  IF Len(terms) = 0 THEN <<>>
  ELSE IF Len(terms) = 1 THEN terms[1]
  ELSE terms[1] \o <<" ">> \o Join(Tail(terms))

\* normalizeQuery: lower-cased runs of letters and digits, each followed
\* by the prefix marker
normalizeQuery(rawQuery) ==
  LET tokens == MatchAlnumRuns(Lower(rawQuery), <<>>)
  IN Join([k \in 1..Len(tokens) |-> Append(StripTrailingStars(tokens[k]), "*")])

\* value.replace(/[\\%_]/g, "\\$&")
RECURSIVE escapeLikePattern(_)
escapeLikePattern(value) ==
  IF Len(value) = 0 THEN <<>>
  ELSE (IF value[1] \in {"\\", "%", "_"} THEN <<"\\", value[1]>> ELSE <<value[1]>>)
       \o escapeLikePattern(Tail(value))

\* s LIKE pattern ESCAPE '\'
RECURSIVE Like(_, _)
Like(s, pattern) ==
  IF Len(pattern) = 0 THEN Len(s) = 0
  ELSE IF pattern[1] = "%"
       THEN \E k \in 0..Len(s) : Like(SubSeq(s, k + 1, Len(s)), Tail(pattern))
  ELSE IF Len(s) = 0 THEN FALSE
  ELSE IF pattern[1] = "_" THEN Like(Tail(s), Tail(pattern))
  ELSE IF pattern[1] = "\\" /\ Len(pattern) >= 2
       THEN s[1] = pattern[2] /\ Like(Tail(s), SubSeq(pattern, 3, Len(pattern)))
  ELSE LowerChar(s[1]) = LowerChar(pattern[1]) /\ Like(Tail(s), Tail(pattern))

\* REPLACE(s, x, ''): s without the occurrences of x, read left to right
RECURSIVE Replace(_, _)
Replace(s, x) ==
  IF Len(x) = 0 \/ Len(s) < Len(x) THEN s
  ELSE IF SubSeq(s, 1, Len(x)) = x THEN Replace(SubSeq(s, Len(x) + 1, Len(s)), x)
  ELSE <<s[1]>> \o Replace(Tail(s), x)

\* (LENGTH(LOWER(content)) - LENGTH(REPLACE(LOWER(content), $3, '')))
\*   / NULLIF(LENGTH($3), 0)        (0 stands for NULL)
OccurrenceInMessage(content, rawQueryLower) ==
  IF Len(rawQueryLower) = 0 THEN 0
  ELSE (Len(Lower(content)) - Len(Replace(Lower(content), rawQueryLower)))
         \div Len(rawQueryLower)

\* the terms of an FTS5 query string: barewords separated by spaces, a
\* trailing * making the bareword a prefix term
RECURSIVE SplitSpaces(_, _)
SplitSpaces(s, word) ==
  IF Len(s) = 0 THEN (IF word = <<>> THEN <<>> ELSE <<word>>)
  ELSE IF s[1] = " "
       THEN (IF word = <<>> THEN <<>> ELSE <<word>>) \o SplitSpaces(Tail(s), <<>>)
  ELSE SplitSpaces(Tail(s), Append(word, s[1]))

FtsTerms(ftsQuery) ==
  LET words == SplitSpaces(ftsQuery, <<>>)
  IN [k \in 1..Len(words) |->
        IF words[k][Len(words[k])] = "*"
        THEN [token |-> SubSeq(words[k], 1, Len(words[k]) - 1), prefix |-> TRUE]
        ELSE [token |-> words[k], prefix |-> FALSE]]

\* the unicode61 tokenizer: case-folded runs of letters and digits
Tokenize(s) == MatchAlnumRuns(Lower(s), <<>>)

IsPrefix(p, t) == Len(p) <= Len(t) /\ SubSeq(t, 1, Len(p)) = p

\* one query term against one indexed column
TermInColumn(term, column) ==
  \E k \in 1..Len(Tokenize(column)) :
     IF term.prefix THEN IsPrefix(term.token, Tokenize(column)[k])
     ELSE term.token = Tokenize(column)[k]

\* ---------------------------------------------------------------------
\* Read operations (db.ts)
\* ---------------------------------------------------------------------

Max(S) == CHOOSE x \in S : \A y \in S : y <= x

\* SELECT MAX(created_at) FROM messages  (0 stands for NULL)
LatestMessage(store) ==
  IF DOMAIN store.messages = {} THEN 0
  ELSE Max({store.messages[m].created_at : m \in DOMAIN store.messages})

\* ---------------------------------------------------------------------
\* searchMessages and getAllConversationsForSearch as queries on a store
\* ---------------------------------------------------------------------

\* messages_fts MATCH $1: every term of the query occurs in the content
\* or the title column of the index row
Matches(e, ftsQuery) ==
  \A k \in 1..Len(FtsTerms(ftsQuery)) :
     \/ TermInColumn(FtsTerms(ftsQuery)[k], Str(e.content))
     \/ TermInColumn(FtsTerms(ftsQuery)[k], Str(e.title))

\* the conversations of the rows of
\* messages_fts JOIN conversations c ON c.id = messages_fts.conversation_id
\*              JOIN messages m ON m.id = messages_fts.message_id
\* WHERE messages_fts MATCH q
MatchingConversations(store, q) ==
  {e.conversation_id : e \in
     {x \in DOMAIN store.fts :
        /\ Matches(x, q)
        /\ x.conversation_id \in DOMAIN store.conversations
        /\ x.message_id \in DOMAIN store.messages}}

\* a where clause without the date filters
DateFilterIgnored(created_at, opts) == TRUE

\* AND COALESCE(m.created_at, 0) >= dateFrom AND COALESCE(m.created_at, 0) <= dateTo,
\* each only when the option is a number
DateFilter(created_at, opts) ==
  /\ IsNumber(opts.dateFrom) => 2 * created_at >= opts.dateFrom.twice
  /\ IsNumber(opts.dateTo) => 2 * created_at <= opts.dateTo.twice

\* AND c.source = source, only when opts.source is truthy
SourceFilter(source, opts) == opts.source # "" => source = opts.source

\* the index rows of messages_fts JOIN conversations c JOIN messages m
\* WHERE whereClause
SearchJoin(store, normalizedQuery, opts) ==
  {e \in DOMAIN store.fts :
     /\ e.conversation_id \in DOMAIN store.conversations
     /\ e.message_id \in DOMAIN store.messages
     /\ Matches(e, normalizedQuery)
     /\ SourceFilter(store.conversations[e.conversation_id].source, opts)
     /\ DateFilter(store.messages[e.message_id].created_at, opts)}

\* SUM(occurrence_in_message) over joined rows (an index row that is
\* stored n times joins n times)
RECURSIVE SumOccurrences(_, _, _)
SumOccurrences(store, joined, rawQueryLower) ==
  IF joined = {} THEN 0
  ELSE LET e == CHOOSE x \in joined : TRUE
       IN store.fts[e] * OccurrenceInMessage(Str(store.messages[e.message_id].content),
                                             rawQueryLower)
          + SumOccurrences(store, joined \ {e}, rawQueryLower)

\* CASE WHEN LOWER(COALESCE(c.title, '')) LIKE $2 ESCAPE '\' THEN -5.0 ELSE 0.0 END
TitleBoost(title, titleLikeParam) ==
  IF Like(Lower(Str(title)), titleLikeParam) THEN -5 ELSE 0

\* a sub-select that returns any matching message of the conversation
AnyMatches(store, joined, g) ==
  {e.message_id : e \in {x \in joined : x.conversation_id = g}}

\* SELECT message_id FROM ranked_rows r2 WHERE r2.conversation_id = g
\* ORDER BY r2.message_created_at ASC LIMIT 1: the messages the sub-select
\* may return (rows with the same time come in any order)
EarliestMatches(store, joined, g) ==
  LET mine == {e.message_id : e \in {x \in joined : x.conversation_id = g}}
  IN {m \in mine :
        \A k \in mine : store.messages[m].created_at <= store.messages[k].created_at}

\* a grouping that counts only the first matching message of a conversation
GroupedFirstMessageOnly(store, joined, g, rawQueryLower, titleLikeParam, first) ==
  LET mine == {e \in joined : e.conversation_id = g}
      one == {CHOOSE e \in mine : TRUE}
      c == store.conversations[g]
      occ == SumOccurrences(store, one, rawQueryLower)
  IN [conversation_id |-> g, title |-> c.title, source |-> c.source,
      created_at |-> c.created_at,
      last_occurrence |-> Max({store.messages[e.message_id].created_at : e \in one}),
      occurrence_count |-> occ,
      message_match_count |-> Cardinality({e.message_id : e \in one}),
      rank |-> (-1 * occ) + TitleBoost(c.title, titleLikeParam),
      first_match_message_id |-> first]

\* the row of `grouped` for conversation g, `first` being the message the
\* sub-select found
Grouped(store, joined, g, rawQueryLower, titleLikeParam, first) ==
  LET mine == {e \in joined : e.conversation_id = g}
      c == store.conversations[g]
      occ == SumOccurrences(store, mine, rawQueryLower)
  IN [conversation_id |-> g, title |-> c.title, source |-> c.source,
      created_at |-> c.created_at,
      last_occurrence |-> Max({store.messages[e.message_id].created_at : e \in mine}),
      occurrence_count |-> occ,
      message_match_count |-> Cardinality({e.message_id : e \in mine}),
      rank |-> (-1 * occ) + TitleBoost(c.title, titleLikeParam),
      first_match_message_id |-> first]

\* collating order of the characters of the stored texts
Collation ==
  <<" ", "0", "1", "2", "3", "4", "5", "6", "7", "8", "9">> \o LowerCase

CharCode(c) == CHOOSE k \in 1..Len(Collation) : Collation[k] = c

\* a < b under COLLATE NOCASE
RECURSIVE NoCaseLess(_, _)
NoCaseLess(a, b) ==
  IF Len(b) = 0 THEN FALSE
  ELSE IF Len(a) = 0 THEN TRUE
  ELSE IF LowerChar(a[1]) = LowerChar(b[1]) THEN NoCaseLess(Tail(a), Tail(b))
  ELSE CharCode(LowerChar(a[1])) < CharCode(LowerChar(b[1]))

\* ORDER BY ${orderBy}: row a has to come before row b
OrderBy(a, b, sort) ==
  CASE sort = "relevance" ->
         \/ a.rank < b.rank
         \/ a.rank = b.rank /\ a.last_occurrence > b.last_occurrence
    [] sort = "occurrence_count_desc" ->
         \/ a.occurrence_count > b.occurrence_count
         \/ a.occurrence_count = b.occurrence_count /\ a.rank < b.rank
    [] sort = "title_az" ->
         \/ NoCaseLess(Str(a.title), Str(b.title))
         \/ Lower(Str(a.title)) = Lower(Str(b.title)) /\ a.rank < b.rank
    [] sort = "title_za" ->
         \/ NoCaseLess(Str(b.title), Str(a.title))
         \/ Lower(Str(a.title)) = Lower(Str(b.title)) /\ a.rank < b.rank
    [] OTHER ->
         \/ a.last_occurrence > b.last_occurrence
         \/ a.last_occurrence = b.last_occurrence /\ a.rank < b.rank

\* the orders in which the store may return the rows: rows that tie on
\* the ORDER BY terms come in any order
Orderings(rows, before) ==
  {s \in [1..Cardinality(rows) -> rows] :
     /\ \A i, j \in 1..Cardinality(rows) : i # j => s[i] # s[j]
     /\ \A i, j \in 1..Cardinality(rows) :
          i < j => <<s[j], s[i]>> \notin before}

\* LIMIT limit OFFSET offset
LimitOffset(s, limit, offset) ==
  SubSeq(s, offset + 1, IF offset + limit < Len(s) THEN offset + limit ELSE Len(s))

\* what the three selects of searchMessages can return on a store
\* (countSql, totalOccurrencesSql, rowsSql), for a query that is not
\* answered locally
SearchOutcomes(store, rawQuery, opts) ==
  LET normalizedQuery == normalizeQuery(rawQuery)
      rawQueryLower == Lower(rawQuery)
      titleLikeParam == <<"%">> \o escapeLikePattern(Lower(rawQuery)) \o <<"%">>
      safeLimit == SafeLimit(opts.limit, 20)
      safeOffset == SafeOffset(opts.offset)
      joined == SearchJoin(store, normalizedQuery, opts)
      groups == {e.conversation_id : e \in joined}
      firsts == {f \in [groups -> {e.message_id : e \in joined}] :
                   \A g \in groups : f[g] \in EarliestMatches(store, joined, g)}
      grouped(f) == {Grouped(store, joined, g, rawQueryLower, titleLikeParam, f[g]) :
                       g \in groups}
      before(f) == {p \in grouped(f) \X grouped(f) : OrderBy(p[1], p[2], opts.sort)}
  IN UNION {{[rows |-> LimitOffset(s, safeLimit, safeOffset),
              totalMatches |-> Cardinality(groups),
              totalOccurrences |-> SumOccurrences(store, joined, rawQueryLower)] :
               s \in Orderings(grouped(f), before(f))} : f \in firsts}

\* the empty result searchMessages gives without entering the chain
EmptyResult == [rows |-> <<>>, totalMatches |-> 0, totalOccurrences |-> 0]

\* a searchMessages that answers locally only when given the empty string
AnsweredLocallyEmptyOnly(query) == query = <<>>

\* searchMessages answers locally: the trimmed query is empty or has no
\* letter or digit
AnsweredLocally(query) ==
  Trim(query) = <<>> \/ normalizeQuery(Trim(query)) = <<>>

\* MAX(created_at) of the messages of conversation c, 0 standing for the
\* NULL of a conversation without messages (COALESCE(last_msg_time, 0))
LastMsgTime(store, c) ==
  LET times == {store.messages[m].created_at :
                  m \in {x \in DOMAIN store.messages :
                           store.messages[x].conversation_id = c}}
  IN IF times = {} THEN 0 ELSE Max(times)

HasMessages(store, c) ==
  \E m \in DOMAIN store.messages : store.messages[m].conversation_id = c

\* one row of rowsSql of getAllConversationsForSearch
ConversationListRow(store, c) ==
  [conversation_id |-> c,
   title |-> store.conversations[c].title,
   source |-> store.conversations[c].source,
   created_at |-> store.conversations[c].created_at,
   last_message_at |-> IF HasMessages(store, c) THEN LastMsgTime(store, c)
                       ELSE store.conversations[c].created_at,
   message_count |-> store.conversations[c].message_count]

\* ORDER BY last_message_at DESC
LastMessageDesc(a, b) == a.last_message_at > b.last_message_at

\* what the two selects of getAllConversationsForSearch can return
BrowseOutcomes(store, opts) ==
  LET safeLimit == SafeLimit(opts.limit, 50)
      safeOffset == SafeOffset(opts.offset)
      found == {c \in DOMAIN store.conversations :
                  /\ SourceFilter(store.conversations[c].source, opts)
                  /\ DateFilter(LastMsgTime(store, c), opts)}
      listed == {ConversationListRow(store, c) : c \in found}
  IN {[rows |-> LimitOffset(s, safeLimit, safeOffset),
       totalMatches |-> Cardinality(found)] :
        s \in Orderings(listed, {p \in listed \X listed :
                                   LastMessageDesc(p[1], p[2])})}

\* --- getActivityCountByDay ---------------------------------------------

\* date(t / 1000, 'unixepoch') and new Date(t).toISOString().slice(0, 10):
\* the UTC day of time t, as a day number
UtcDay(t) == t \div oneDayMs

\* d.setHours(0, 0, 0, 0); d.getTime(): the start of the local day of t in
\* a zone whose clocks are tz ahead of UTC
LocalMidnight(t, tz) == ((t + tz) \div oneDayMs) * oneDayMs - tz

\* the rows of SELECT date(created_at / 1000, 'unixepoch') AS day, COUNT(*)
\* FROM messages WHERE created_at >= $1 GROUP BY day, as the count of a day
CountOfDay(store, startMs, day) ==
  Cardinality({m \in DOMAIN store.messages :
                 /\ store.messages[m].created_at >= startMs
                 /\ UtcDay(store.messages[m].created_at) = day})

\* Math.max(1, Math.min(365, Math.floor(days)))
SafeDays(days) == MathMax(Num(1), MathMin(Num(365), MathFloor(days)))

\* the array getActivityCountByDay(days) builds at time now; with
\* safeDays = NaN the loop `i < safeDays` does not run
ActivityCounts(store, days, now, tz) ==
  IF IsNaN(SafeDays(days)) THEN <<>>
  ELSE LET safeDays == Int32(SafeDays(days))
           startMs == LocalMidnight(now - (safeDays - 1) * oneDayMs, tz)
       IN [k \in 1..safeDays |->
             CountOfDay(store, startMs, UtcDay(now - (safeDays - k) * oneDayMs))]

AtRead(i, kind, pcs) ==
  /\ i \in OpIds /\ Running(i)
  /\ ops[i].kind = kind /\ ops[i].pc \in pcs

\* a read body that starts over after a lock-busy error
ReadFailureRetries(o, e) ==
  IF isDbLockedError(e) /\ o.attempt < MAX_IMPORT_RETRIES - 1
  THEN [o EXCEPT !.attempt = @ + 1, !.pc = FirstPc(o.kind), !.reads = <<>>, !.ci = 1]
  ELSE Reject(o, e)

\* a select of a read body rejects: no try/catch, the body rejects with it
ReadFailure(o, e) == Reject(o, e)

\* getStats: four selects in sequence, then the record of their results
GetStatsSelect(i) ==
  /\ AtRead(i, "getStats", {"countConvs", "countMsgs", "latest", "countFts"})
  /\ LET pc == ops[i].pc
         t == CASE pc = "countConvs" -> "conversations"
                [] pc = "countFts" -> "messages_fts"
                [] OTHER -> "messages"
         v == CASE pc = "countConvs" -> CountRows(conn.view.conversations)
                [] pc = "countMsgs" -> CountRows(conn.view.messages)
                [] pc = "latest" -> LatestMessage(conn.view)
                [] OTHER -> BagCardinality(conn.view.fts)
         next == CASE pc = "countConvs" -> "countMsgs"
                   [] pc = "countMsgs" -> "latest"
                   [] pc = "latest" -> "countFts"
                   [] OTHER -> "done"
     IN \E r \in Execute(Touch(conn, t, conn.view)) :
          /\ Issue(i, r)
          /\ SetOp(i,
               IF r.err # "none" THEN ReadFailure(ops[i], r.err)
               ELSE IF next = "done"
                    THEN Fulfil([ops[i] EXCEPT !.reads = Append(@, v)])
                    ELSE [ops[i] EXCEPT !.pc = next, !.reads = Append(@, v)])
  /\ UNCHANGED <<db, dbLock, initPromise, mainPc, initCalls, resolved>>

SingleSelectReads == {"getMessages", "getSourceStats"}

\* the table a read needs first
ReadTable(kind) ==
  IF kind = "getMessages" THEN "messages" ELSE "conversations"

\* getSourceStats, getMessages: the select returns and the body returns
ReadSelect(i) ==
  /\ i \in OpIds /\ Running(i)
  /\ ops[i].kind \in SingleSelectReads /\ ops[i].pc = "select"
  /\ \E r \in Execute(
          IF conn.view.tables["messages"] # "absent"
          THEN Touch(conn, ReadTable(ops[i].kind), conn.view)
          ELSE Err(conn, "other")) :
       /\ Issue(i, r)
       /\ SetOp(i,
            IF r.err # "none" THEN ReadFailure(ops[i], r.err)
            ELSE Fulfil([ops[i] EXCEPT !.reads =
                   IF ops[i].kind = "getMessages"
                   THEN <<{m \in DOMAIN conn.view.messages :
                            conn.view.messages[m].conversation_id = ops[i].arg.conv}>>
                   ELSE <<DOMAIN conn.view.conversations,
                          CountRows(conn.view.conversations)>>]))
  /\ UNCHANGED <<db, dbLock, initPromise, mainPc, initCalls, resolved>>

\* getAllConversationsForSearch: Promise.all([select(countSql),
\* select(rowsSql)]) issues the two selects together
BrowseQueries(i) ==
  /\ AtRead(i, "getAllConversationsForSearch", {"select"})
  /\ SetOp(i, [ops[i] EXCEPT !.pc = "all", !.inflight = 2])
  /\ issuer' = i
  /\ UNCHANGED <<db, conn, dbLock, initPromise, mainPc, initCalls, resolved, faults>>

\* getActivityCountByDay: Date.now() is read, the select returns and the
\* body returns the array
ActivitySelect(i) ==
  /\ AtRead(i, "getActivityCountByDay", {"select"})
  /\ \E r \in Execute(Touch(conn, "messages", conn.view)) :
       /\ Issue(i, r)
       /\ \E now \in Clock, tz \in TimeZones :
            SetOp(i,
              IF r.err # "none" THEN ReadFailure(ops[i], r.err)
              ELSE Fulfil([ops[i] EXCEPT !.reads =
                     <<ActivityCounts(conn.view, ops[i].arg.days, now, tz),
                       [safeDays |-> SafeDays(ops[i].arg.days),
                        now |-> now, tz |-> tz]>>]))
  /\ UNCHANGED <<db, dbLock, initPromise, mainPc, initCalls, resolved>>

\* searchMessages: Promise.all([select(countSql),
\* select(totalOccurrencesSql), select(rowsSql)]) issues the three selects
\* together
SearchQueries(i) ==
  /\ AtRead(i, "searchMessages", {"queries"})
  /\ SetOp(i, [ops[i] EXCEPT !.pc = "all", !.inflight = 3])
  /\ issuer' = i
  /\ UNCHANGED <<db, conn, dbLock, initPromise, mainPc, initCalls, resolved, faults>>

\* what the body does once every select of its Promise.all has returned:
\* getAllConversationsForSearch returns {rows, totalMatches};
\* searchMessages goes on to the snippets of the rows, or returns when
\* there are none
AfterAll(o, store) ==
  IF o.kind = "getAllConversationsForSearch"
  THEN {Fulfil([o EXCEPT !.inflight = 0, !.reads =
                  <<result,
                    [safeLimit |-> SafeLimit(o.arg.opts.limit, 50),
                     safeOffset |-> SafeOffset(o.arg.opts.offset)]>>]) :
          result \in BrowseOutcomes(store, o.arg.opts)}
  ELSE {LET got == [o EXCEPT !.inflight = 0, !.reads =
                      <<result,
                        [safeLimit |-> SafeLimit(o.arg.opts.limit, 20),
                         safeOffset |-> SafeOffset(o.arg.opts.offset)]>>]
        IN IF Len(result.rows) = 0 THEN Fulfil(got)
           ELSE [got EXCEPT !.pc = "snippet", !.ci = 1] :
          result \in SearchOutcomes(store, Trim(o.arg.query), o.arg.opts)}

\* the tables the selects of a Promise.all read
TablesOfAll(kind) ==
  IF kind = "getAllConversationsForSearch"
  THEN {"conversations", "messages"} ELSE TableNames

\* what a returning select of a Promise.all makes of the operation: the
\* first rejection rejects the body at once, the last result lets it go on
ReturnOfAll(o, r, store) ==
  IF r.err # "none"
  THEN {ReadFailure([o EXCEPT !.inflight = @ - 1], r.err)}
  ELSE IF o.inflight > 1
       THEN {[o EXCEPT !.inflight = @ - 1]}
       ELSE AfterAll(o, store)

\* one select of a Promise.all returns
PromiseAll(i) ==
  /\ i \in OpIds /\ Running(i) /\ ops[i].pc = "all"
  /\ \E r \in Execute(
          IF \A t \in TablesOfAll(ops[i].kind) : conn.view.tables[t] # "absent"
          THEN Ok(conn) ELSE Err(conn, "other")) :
       /\ Issue(i, r)
       /\ \E o \in ReturnOfAll(ops[i], r, conn.view) : SetOp(i, o)
  /\ UNCHANGED <<db, dbLock, initPromise, mainPc, initCalls, resolved>>

\* a select of a Promise.all that has already rejected returns: nobody
\* awaits its result
LateReturn(i) ==
  /\ i \in OpIds /\ ops[i].status = "rejected" /\ ops[i].inflight > 0
  /\ SetOp(i, [ops[i] EXCEPT !.inflight = @ - 1])
  /\ UNCHANGED <<db, conn, dbLock, initPromise, mainPc, initCalls, resolved, issuer, faults>>

\* searchMessages: the snippet select of one result row; after the last
\* one the body returns {rows, totalMatches, totalOccurrences}
SearchSnippet(i) ==
  /\ AtRead(i, "searchMessages", {"snippet"})
  /\ \E r \in Execute(
          IF \A t \in {"messages", "messages_fts"} : conn.view.tables[t] # "absent"
          THEN Ok(conn) ELSE Err(conn, "other")) :
       /\ Issue(i, r)
       /\ SetOp(i,
            IF r.err # "none" THEN ReadFailure(ops[i], r.err)
            ELSE IF ops[i].ci < Len(ops[i].reads[1].rows)
                 THEN [ops[i] EXCEPT !.ci = @ + 1]
                 ELSE Fulfil(ops[i]))
  /\ UNCHANGED <<db, dbLock, initPromise, mainPc, initCalls, resolved>>

\* ---------------------------------------------------------------------
\* Callers
\* ---------------------------------------------------------------------

\* an initDatabase that enqueues the body again once its promise has rejected
initDatabaseAgainAfterFailure ==
  /\ IF initPromise # 0
     THEN IF ops[initPromise].status # "rejected"
          THEN UNCHANGED <<ops, dbLock, initPromise>>
          ELSE withDbLock("initDatabase", NoArg) /\ initPromise' = Len(ops) + 1
     ELSE withDbLock("initDatabase", NoArg) /\ initPromise' = Len(ops) + 1
  /\ initCalls' = Append(initCalls, initPromise')

\* initDatabase(): `if (initPromise) return initPromise`; only the first
\* call enqueues the body; every call returns initPromise
initDatabase ==
  /\ IF initPromise # 0
     THEN UNCHANGED <<ops, dbLock, initPromise>>
     ELSE withDbLock("initDatabase", NoArg) /\ initPromise' = Len(ops) + 1
  /\ initCalls' = Append(initCalls, initPromise')

\* startup script: initDatabase() before the application renders
MainInitDatabase ==
  /\ mainPc = "start"
  /\ initDatabase
  /\ mainPc' = "done"
  /\ UNCHANGED <<db, conn, issuer, faults, resolved>>

\* a further initDatabase() call, made at any time
CallInitDatabase ==
  /\ Len(initCalls) < MaxInitCalls
  /\ initDatabase
  /\ UNCHANGED <<db, conn, mainPc, issuer, faults, resolved>>

\* the application calls the exported functions once the script has run
AppReady == mainPc # "start"

Call(kind, arg) ==
  /\ AppReady
  /\ Len(ops) + Len(resolved) < MaxOps
  /\ withDbLock(kind, arg)
  /\ UNCHANGED <<db, conn, initPromise, mainPc, initCalls, resolved, issuer, faults>>

insertConversations(b) == Call("insertConversations", [NoArg EXCEPT !.batch = b])
clearAllData == Call("clearAllData", NoArg)
getStats == Call("getStats", NoArg)
\* searchMessages(query, opts): a query that is empty once trimmed, or
\* that normalizes to nothing, is answered with Promise.resolve(empty);
\* any other query enters the chain
searchMessages(query, opts) ==
  /\ AppReady
  /\ Len(ops) + Len(resolved) < MaxOps
  /\ IF AnsweredLocally(query)
     THEN /\ resolved' = Append(resolved, [query |-> query, value |-> EmptyResult])
          /\ UNCHANGED <<ops, dbLock>>
     ELSE /\ withDbLock("searchMessages", [NoArg EXCEPT !.query = query, !.opts = opts])
          /\ resolved' = resolved
  /\ UNCHANGED <<db, conn, initPromise, mainPc, initCalls, issuer, faults>>

getMessages(c) == Call("getMessages", [NoArg EXCEPT !.conv = c])
getSourceStats == Call("getSourceStats", NoArg)
getAllConversationsForSearch(opts) ==
  Call("getAllConversationsForSearch", [NoArg EXCEPT !.opts = opts])
getActivityCountByDay(days) ==
  Call("getActivityCountByDay", [NoArg EXCEPT !.days = days])

\* ---------------------------------------------------------------------
\* Specification of the application started by initDatabase()
\* ---------------------------------------------------------------------

Init ==
  /\ db = FALSE
  /\ conn = NewConnection(EmptyStore)
  /\ dbLock = 0
  /\ initPromise = 0
  /\ ops = <<>>
  /\ mainPc = "start"
  /\ issuer = 0
  /\ faults = 0
  /\ initCalls = <<>>
  /\ resolved = <<>>

Calls ==
  \/ \E b \in Batches : insertConversations(b)
  \/ clearAllData
  \/ getStats
  \/ \E q \in Queries : searchMessages(q, NoOpts)
  \/ getMessages("c1")
  \/ getSourceStats
  \/ getAllConversationsForSearch(NoOpts)
  \/ getActivityCountByDay(Num(30))

Steps(i) ==
  \/ StartOp(i)
  \/ rawGetDb(i)
  \/ ImportBackoff(i)
  \/ ImportPragma(i)
  \/ ImportBegin(i)
  \/ ImportConversation(i)
  \/ ImportDeleteFts(i)
  \/ ImportMessage(i)
  \/ ImportFts(i)
  \/ ImportCommit(i)
  \/ ImportRollback(i)
  \/ ClearBackoff(i)
  \/ ClearPragma(i)
  \/ ClearCleanup(i)
  \/ ClearBegin(i)
  \/ ClearDeleteFts(i)
  \/ ClearDeleteMessages(i)
  \/ ClearDeleteConversations(i)
  \/ ClearCommit(i)
  \/ ClearRollback(i)
  \/ InitPragmas(i)
  \/ InitMigrate(i)
  \/ InitCreateTables(i)
  \/ InitCreateFts(i)
  \/ InitBackfill(i)
  \/ InitCount(i)
  \/ GetStatsSelect(i)
  \/ ReadSelect(i)
  \/ BrowseQueries(i)
  \/ ActivitySelect(i)
  \/ SearchQueries(i)
  \/ SearchSnippet(i)
  \/ PromiseAll(i)
  \/ LateReturn(i)

Next ==
  \/ MainInitDatabase
  \/ Calls
  \/ \E i \in 1..MaxOps : Steps(i)

Spec == Init /\ [][Next]_vars

\* ---------------------------------------------------------------------
\* Specification of the application when every database call returns and
\* every timer fires: the continuation of an awaited call or timeout is
\* run by the event loop, so an operation that can take a step takes one
\* ---------------------------------------------------------------------

\* the steps of the writes, of the initialisation and of a read
StepsLive(i) ==
  \/ StartOp(i)
  \/ rawGetDb(i)
  \/ ImportBackoff(i)
  \/ ImportPragma(i)
  \/ ImportBegin(i)
  \/ ImportConversation(i)
  \/ ImportDeleteFts(i)
  \/ ImportMessage(i)
  \/ ImportFts(i)
  \/ ImportCommit(i)
  \/ ImportRollback(i)
  \/ ClearBackoff(i)
  \/ ClearPragma(i)
  \/ ClearCleanup(i)
  \/ ClearBegin(i)
  \/ ClearDeleteFts(i)
  \/ ClearDeleteMessages(i)
  \/ ClearDeleteConversations(i)
  \/ ClearCommit(i)
  \/ ClearRollback(i)
  \/ InitPragmas(i)
  \/ InitMigrate(i)
  \/ InitCreateTables(i)
  \/ InitCreateFts(i)
  \/ InitBackfill(i)
  \/ InitCount(i)
  \/ GetStatsSelect(i)

NextLive ==
  \/ MainInitDatabase
  \/ insertConversations(BatchFirst)
  \/ clearAllData
  \/ getStats
  \/ \E i \in 1..MaxOps : StepsLive(i)

SpecLive ==
  Init /\ [][NextLive]_vars /\ \A i \in 1..MaxOps : WF_vars(StepsLive(i))

\* ---------------------------------------------------------------------
\* Specification of the application while another process keeps the
\* file locked: BEGIN IMMEDIATE can time out with "database is locked"
\* any number of times
\* ---------------------------------------------------------------------

\* BEGIN IMMEDIATE of runImportTransaction rejects with SQLITE_BUSY
ImportBeginBusy(i) ==
  /\ AtImport(i, "begin")
  /\ Issue(i, Err(conn, "busy"))
  /\ SetOp(i, ImportFailure(ops[i], "busy"))
  /\ UNCHANGED <<db, dbLock, initPromise, mainPc, initCalls, resolved>>

\* BEGIN IMMEDIATE of clearAllData rejects with SQLITE_BUSY
ClearBeginBusy(i) ==
  /\ AtClear(i, "begin")
  /\ Issue(i, Err(conn, "busy"))
  /\ SetOp(i, ClearCatch(ops[i], "busy"))
  /\ UNCHANGED <<db, dbLock, initPromise, mainPc, initCalls, resolved>>

NextRetry ==
  \/ Next
  \/ \E i \in 1..MaxOps : ImportBeginBusy(i)
  \/ \E i \in 1..MaxOps : ClearBeginBusy(i)

SpecRetry == Init /\ [][NextRetry]_vars

\* ---------------------------------------------------------------------
\* Specification of a process started on the file an earlier run left
\* ---------------------------------------------------------------------

\* the three tables as initDatabase creates them, without rows
CurrentSchema == [EmptyStore EXCEPT !.tables = [t \in TableNames |-> "current"]]

\* sqlite:memex.db at process start: no file yet, or the rows that
\* imports of an earlier run committed
DiskStates ==
  {EmptyStore,
   runImportTransaction(CurrentSchema, BatchFirst),
   runImportTransaction(CurrentSchema, BatchTwo)}

InitRestart ==
  /\ db = FALSE
  /\ conn \in {NewConnection(d) : d \in DiskStates}
  /\ dbLock = 0
  /\ initPromise = 0
  /\ ops = <<>>
  /\ mainPc = "start"
  /\ issuer = 0
  /\ faults = 0
  /\ initCalls = <<>>
  /\ resolved = <<>>

SpecRestart == InitRestart /\ [][Next]_vars


\* ---------------------------------------------------------------------
\* Specification of a process started on a file that an earlier version
\* of the application wrote: initDatabase migrates and back-fills
\* ---------------------------------------------------------------------

\* the file of a version whose conversations table had no updated_at
\* column (db.ts:78), with or without a search index
LegacyDisks(d) ==
  {[d EXCEPT !.tables = [t \in TableNames |->
                          IF t = "messages_fts" THEN "current" ELSE "legacy"]],
   [d EXCEPT !.tables = [t \in TableNames |->
                          IF t = "messages_fts" THEN "absent" ELSE "legacy"],
             !.fts = EmptyBag]}

\* the file of a version that had no search index
IndexAbsent(d) ==
  [d EXCEPT !.tables["messages_fts"] = "absent", !.fts = EmptyBag]

\* the file of a version whose search index had no title column (db.ts:112)
IndexWithoutTitle(d) ==
  [d EXCEPT !.tables["messages_fts"] = "legacy",
            !.fts = SetToBag({[e EXCEPT !.title = <<>>] : e \in DOMAIN d.fts})]

\* rows that imports of an earlier run committed: one conversation, two
\* conversations, and a conversation re-imported without one of its messages
ImportedDisks ==
  {runImportTransaction(CurrentSchema, BatchFirst),
   runImportTransaction(CurrentSchema, BatchTwo),
   runImportTransaction(runImportTransaction(CurrentSchema, BatchFirst), BatchEdited)}

MigrateDisks ==
  {EmptyStore, CurrentSchema}
  \cup ImportedDisks
  \cup UNION {LegacyDisks(d) : d \in ImportedDisks}
  \cup {IndexAbsent(d) : d \in ImportedDisks}
  \cup {IndexWithoutTitle(d) : d \in ImportedDisks}

InitMigrateDisk ==
  /\ db = FALSE
  /\ conn \in {NewConnection(d) : d \in MigrateDisks}
  /\ dbLock = 0
  /\ initPromise = 0
  /\ ops = <<>>
  /\ mainPc = "start"
  /\ issuer = 0
  /\ faults = 0
  /\ initCalls = <<>>
  /\ resolved = <<>>

\* the startup script, the init body, and reads of what it left
NextMigrate ==
  \/ MainInitDatabase
  \/ getStats
  \/ \E q \in Queries : searchMessages(q, NoOpts)
  \/ \E i \in 1..MaxOps :
       \/ StartOp(i)
       \/ rawGetDb(i)
       \/ InitPragmas(i)
       \/ InitMigrate(i)
       \/ InitCreateTables(i)
       \/ InitCreateFts(i)
       \/ InitBackfill(i)
       \/ InitCount(i)
       \/ GetStatsSelect(i)
       \/ SearchQueries(i)
       \/ SearchSnippet(i)
       \/ PromiseAll(i)
       \/ LateReturn(i)

SpecMigrate == InitMigrateDisk /\ [][NextMigrate]_vars

\* ---------------------------------------------------------------------
\* Specification of one visit of the search page after start-up: one
\* search, browse or activity call on the file an earlier run left, and
\* further pages of a search
\* ---------------------------------------------------------------------

\* the files the visit can find
SearchDisks ==
  {runImportTransaction(CurrentSchema, b) :
     b \in {BatchFirst, BatchTwo, BatchRanking, BatchTies}}

\* the initDatabase operation once its body has returned on disk d
StartedUp(d) ==
  Fulfil([NewOp("initDatabase", NoArg, 0) EXCEPT
            !.pre = d, !.reads = <<CountRows(d.messages), BagCardinality(d.fts)>>])

InitSearch ==
  /\ db = TRUE
  /\ \E d \in SearchDisks :
       /\ conn = NewConnection(d)
       /\ ops = <<StartedUp(d)>>
  /\ dbLock = 1
  /\ initPromise = 1
  /\ mainPc = "done"
  /\ issuer = 1
  /\ faults = 0
  /\ initCalls = <<1>>
  /\ resolved = <<>>

\* what the user types
TypedQueries ==
  {<<>>, <<" ", " ">>, <<"?", "!">>, <<" ", "*">>,
   Chars("salary"), Append(Chars("salary"), "*"), <<"s", "a", "l">>,
   <<" ", "S", "a", "l", " ">>, Chars("budget"), Chars("tax"), Chars("Tax"),
   Chars("pay"), <<"x", "y", "z", "1", "2", "3">>,
   Chars("budget") \o <<" ">> \o <<"s", "a", "l">>}

Limits ==
  {Undefined, NaN, Infinity, Num(0), Num(1), Num(2), Halves(3), Num(250), Num(-1)}

Offsets == {Undefined, NaN, Num(0), Num(1), Halves(3), Num(5), Num(-1)}

Sorts ==
  {"undefined", "relevance", "last_occurrence_desc", "occurrence_count_desc",
   "title_az", "title_za"}

\* the options a call is made with: paging, or a sort order, or filters
TypedOptions ==
  {[NoOpts EXCEPT !.limit = l] : l \in Limits}
  \cup {[NoOpts EXCEPT !.limit = Num(1), !.offset = o] : o \in Offsets}
  \cup {[NoOpts EXCEPT !.sort = s] : s \in Sorts}
  \cup {[NoOpts EXCEPT !.source = src, !.dateFrom = from, !.dateTo = to] :
          src \in {"", "claude", "gemini"},
          from \in {Undefined, Num(10), Num(20), Halves(21)},
          to \in {Undefined, Num(10), Num(20)}}

\* the window lengths asked for
TypedDays ==
  {Num(1), Num(3), Num(30), Num(0), Num(-2), Halves(5), Num(400),
   NaN, Infinity, NegInfinity}

\* the visit has made no call yet
FirstCall == Len(ops) = 1 /\ resolved = <<>>

\* SearchPage.handleLoadMore: the next page of the search i, asked for
\* with the number of rows loaded so far as offset
handleLoadMore(i) ==
  /\ i \in OpIds /\ ops[i].kind = "searchMessages" /\ ops[i].status = "fulfilled"
  /\ i = Len(ops)
  /\ SafeOffset(ops[i].arg.opts.offset) = 0
  /\ Len(ops[i].reads[1].rows) < ops[i].reads[1].totalMatches
  /\ searchMessages(ops[i].arg.query,
                    [ops[i].arg.opts EXCEPT !.offset = Num(Len(ops[i].reads[1].rows))])

NextSearch ==
  \/ \E q \in TypedQueries, o \in TypedOptions : FirstCall /\ searchMessages(q, o)
  \/ \E o \in TypedOptions : FirstCall /\ getAllConversationsForSearch(o)
  \/ \E d \in TypedDays : FirstCall /\ getActivityCountByDay(d)
  \/ \E i \in 1..MaxOps : handleLoadMore(i)
  \/ \E i \in 1..MaxOps : StartOp(i)
  \/ \E i \in 1..MaxOps : rawGetDb(i)
  \/ \E i \in 1..MaxOps : SearchQueries(i)
  \/ \E i \in 1..MaxOps : SearchSnippet(i)
  \/ \E i \in 1..MaxOps : BrowseQueries(i)
  \/ \E i \in 1..MaxOps : ActivitySelect(i)
  \/ \E i \in 1..MaxOps : PromiseAll(i)
  \/ \E i \in 1..MaxOps : LateReturn(i)

SpecSearch == InitSearch /\ [][NextSearch]_vars

\* ---------------------------------------------------------------------
\* Specification of an application with an operation that calls
\* searchMessages while it holds its turn:
\* withDbLock(async () => { await getDb(); return await searchMessages(q); })
\* (no function of db.ts or dbInsert.ts does)
\* ---------------------------------------------------------------------

\* the application enqueues the operation, once
reentrant(q) ==
  /\ \A k \in OpIds : ops[k].kind # "reentrant"
  /\ Call("reentrant", [NoArg EXCEPT !.query = q])

\* the body, holding its turn, calls searchMessages(q) and awaits the
\* promise: the one of a query answered locally (inner = 0), or the one
\* of the nested operation that withDbLock chains on the tail
ReentrantEnter(i) ==
  /\ i \in OpIds /\ Running(i)
  /\ ops[i].kind = "reentrant" /\ ops[i].pc = "enter"
  /\ IF AnsweredLocally(ops[i].arg.query)
     THEN /\ resolved' = Append(resolved, [query |-> ops[i].arg.query, value |-> EmptyResult])
          /\ ops' = [ops EXCEPT ![i].pc = "await"]
          /\ dbLock' = dbLock
     ELSE /\ resolved' = resolved
          /\ ops' = Append([ops EXCEPT ![i].pc = "await", ![i].inner = Len(ops) + 1],
                           NewOp("searchMessages",
                                 [NoArg EXCEPT !.query = ops[i].arg.query], dbLock))
          /\ dbLock' = Len(ops) + 1
  /\ UNCHANGED <<db, conn, initPromise, mainPc, initCalls, issuer, faults>>

\* the awaited promise has settled: the body settles the same way
ReentrantAwait(i) ==
  /\ i \in OpIds /\ Running(i)
  /\ ops[i].kind = "reentrant" /\ ops[i].pc = "await"
  /\ IF ops[i].inner = 0
     THEN SetOp(i, Fulfil(ops[i]))
     ELSE /\ ops[ops[i].inner].status \in Settled
          /\ SetOp(i, IF ops[ops[i].inner].status = "fulfilled" THEN Fulfil(ops[i])
                      ELSE Reject(ops[i], ops[ops[i].inner].err))
  /\ UNCHANGED <<db, conn, dbLock, initPromise, mainPc, initCalls, resolved, issuer, faults>>

NextReentrant ==
  \/ \E q \in {<<>>} \cup Queries : reentrant(q)
  \/ \E q \in Queries : searchMessages(q, NoOpts)
  \/ \E i \in 1..(MaxOps + 1) : StartOp(i)
  \/ \E i \in 1..(MaxOps + 1) : rawGetDb(i)
  \/ \E i \in 1..(MaxOps + 1) : SearchQueries(i)
  \/ \E i \in 1..(MaxOps + 1) : SearchSnippet(i)
  \/ \E i \in 1..(MaxOps + 1) : ReentrantEnter(i)
  \/ \E i \in 1..(MaxOps + 1) : ReentrantAwait(i)
  \/ \E i \in 1..(MaxOps + 1) : PromiseAll(i)
  \/ \E i \in 1..(MaxOps + 1) : LateReturn(i)

SpecReentrant == InitSearch /\ [][NextReentrant]_vars

\* ---------------------------------------------------------------------
\* Specification of callers of initDatabase(): the startup script and
\* further calls made before, while and after the body runs
\* ---------------------------------------------------------------------

NextInit ==
  \/ MainInitDatabase
  \/ CallInitDatabase
  \/ getStats
  \/ \E i \in 1..MaxOps : StartOp(i)
  \/ \E i \in 1..MaxOps : rawGetDb(i)
  \/ \E i \in 1..MaxOps : InitPragmas(i)
  \/ \E i \in 1..MaxOps : InitMigrate(i)
  \/ \E i \in 1..MaxOps : InitCreateTables(i)
  \/ \E i \in 1..MaxOps : InitCreateFts(i)
  \/ \E i \in 1..MaxOps : InitBackfill(i)
  \/ \E i \in 1..MaxOps : InitCount(i)
  \/ \E i \in 1..MaxOps : GetStatsSelect(i)

SpecInit == InitRestart /\ [][NextInit]_vars

\* ---------------------------------------------------------------------
\* Specification of the application started by main.tsx's initDb(),
\* which takes the handle from getDb() without entering the chain
\* ---------------------------------------------------------------------

\* CREATE TABLE IF NOT EXISTS conversations (id, source, title, created_at)
CreateOldConversations(store) ==
  IF store.tables["conversations"] = "absent"
  THEN [store EXCEPT !.tables["conversations"] = "legacy"]
  ELSE store

MainCall(r, next) ==
  /\ conn' = r.conn
  /\ issuer' = -1
  /\ faults' = IF r.fault THEN faults + 1 ELSE faults
  /\ mainPc' = IF r.err = "none" THEN next ELSE "failed"

\* const db = await getDb()
InitDbGetDb ==
  /\ mainPc = "getDb"
  /\ db' = TRUE
  /\ mainPc' = "create"
  /\ UNCHANGED <<conn, dbLock, initPromise, ops, issuer, faults, initCalls, resolved>>

\* await db.execute(CREATE TABLE IF NOT EXISTS conversations ...)
InitDbCreate ==
  /\ mainPc = "create"
  /\ \E r \in Execute(Ok(WithView(conn, CreateOldConversations(conn.view)))) :
       MainCall(r, "select")
  /\ UNCHANGED <<db, dbLock, initPromise, ops, initCalls, resolved>>

\* await db.select(SELECT * FROM conversations)
InitDbSelect ==
  /\ mainPc = "select"
  /\ \E r \in Execute(Touch(conn, "conversations", conn.view)) :
       MainCall(r, "delete")
  /\ UNCHANGED <<db, dbLock, initPromise, ops, initCalls, resolved>>

\* await db.execute(DELETE FROM conversations)
InitDbDelete ==
  /\ mainPc = "delete"
  /\ \E r \in Execute(Touch(conn, "conversations", DeleteAllConversations(conn.view))) :
       MainCall(r, "finished")
  /\ UNCHANGED <<db, dbLock, initPromise, ops, initCalls, resolved>>

InitMainTsx ==
  /\ db = FALSE
  /\ conn = NewConnection(EmptyStore)
  /\ dbLock = 0
  /\ initPromise = 0
  /\ ops = <<>>
  /\ mainPc = "getDb"
  /\ issuer = 0
  /\ faults = 0
  /\ initCalls = <<>>
  /\ resolved = <<>>

NextMainTsx ==
  \/ InitDbGetDb
  \/ InitDbCreate
  \/ InitDbSelect
  \/ InitDbDelete
  \/ getStats
  \/ getMessages("c1")
  \/ getSourceStats
  \/ \E i \in 1..MaxOps : StartOp(i)
  \/ \E i \in 1..MaxOps : rawGetDb(i)
  \/ \E i \in 1..MaxOps : GetStatsSelect(i)
  \/ \E i \in 1..MaxOps : ReadSelect(i)

SpecMainTsx == InitMainTsx /\ [][NextMainTsx]_vars


\* ---------------------------------------------------------------------
\* Properties
\* ---------------------------------------------------------------------

ConvIds == {"c1", "c2"}

Terms ==
  {"salary", "increase", "weather", "today", "bonus", "budget", "planning", "plans"}

\* a token of the text starts with the word q
Mentions(text, q) ==
  TermInColumn([token |-> Chars(q), prefix |-> TRUE], Str(text))

ReadKinds ==
  SingleSelectReads \cup
    {"getStats", "searchMessages", "getAllConversationsForSearch",
     "getActivityCountByDay"}

IsImport(i) == ops[i].kind = "insertConversations"
Fulfilled(i) == ops[i].status = "fulfilled"
Rejected(i) == ops[i].status = "rejected"
Queued(i) == ops[i].status = "queued"

\* no operation called after i has started yet
LatestStarted(i) == \A k \in OpIds : k > i => Queued(k)

\* number of index entries / message rows of a conversation
FtsCount(store, c) ==
  BagCardinality([e \in {x \in DOMAIN store.fts : x.conversation_id = c} |-> store.fts[e]])

MsgCount(store, c) ==
  Cardinality({m \in DOMAIN store.messages : store.messages[m].conversation_id = c})

\* C1: at most one operation body passed to withDbLock is executing
\* (started and not yet settled) at any instant.
C1_OneAtATime == Cardinality({i \in OpIds : Running(i)}) <= 1

C1_Witness ==
  \E i, j \in OpIds : i < j /\ Running(i) /\ ops[i].pc # "getDb" /\ Queued(j)
     /\ IsImport(i) /\ ops[j].kind \in ReadKinds

\* C2: in the committed store, every conversation id has as many index
\* entries as message rows, after any imports (re-imports included) and wipes.
C2_IndexMirrorCounts ==
  \A c \in ConvIds : FtsCount(Committed(conn), c) = MsgCount(Committed(conn), c)

\* C3: in the committed store, every index entry has the content of the
\* message row with its message_id and the title of the conversation row
\* with its conversation_id.
C3_IndexMirrorContent ==
  LET store == Committed(conn) IN
  \A e \in DOMAIN store.fts :
    /\ e.message_id \in DOMAIN store.messages
    /\ store.messages[e.message_id].content = e.content
    /\ e.conversation_id \in DOMAIN store.conversations
    /\ store.conversations[e.conversation_id].title = e.title

C3_Witness ==
  /\ \E i, j \in OpIds :
       /\ i < j /\ IsImport(i) /\ IsImport(j) /\ Fulfilled(i) /\ Fulfilled(j)
       /\ ops[i].arg.batch = BatchFirst /\ ops[j].arg.batch = BatchEdited
       /\ LatestStarted(j)
  /\ \E e \in DOMAIN Committed(conn).fts : e.content = BonusText /\ e.title = PlansTitle

\* C4: once an insertConversations call has rejected, the connection shows
\* exactly the rows it showed when the call started.
C4_FailedImportLeavesNoTrace ==
  \A i \in OpIds :
    (IsImport(i) /\ Rejected(i) /\ LatestStarted(i)) => conn.view = ops[i].pre

\* C5: a second successful insertConversations with the same batch leaves
\* the store as the first one left it, and no index row is duplicated.
C5_IdempotentImport ==
  \A i \in OpIds :
    ( /\ i + 1 \in OpIds
      /\ IsImport(i) /\ IsImport(i + 1) /\ Fulfilled(i) /\ Fulfilled(i + 1)
      /\ ops[i].arg.batch = ops[i + 1].arg.batch
      /\ LatestStarted(i + 1) )
    => /\ Committed(conn) = ops[i + 1].pre
       /\ \A e \in DOMAIN Committed(conn).fts : Committed(conn).fts[e] = 1

C5_Witness ==
  \E i \in OpIds :
    /\ i + 1 \in OpIds
    /\ IsImport(i) /\ IsImport(i + 1) /\ Fulfilled(i) /\ Fulfilled(i + 1)
    /\ ops[i].arg.batch = BatchTwo /\ ops[i + 1].arg.batch = BatchTwo
    /\ BagCardinality(Committed(conn).fts) = 2

\* C6: operation bodies start in call order: an operation has left the
\* queue only if every operation called before it has settled.
C6_StartInCallOrder ==
  \A i, j \in OpIds : (i < j /\ ~Queued(j)) => ops[i].status \in Settled

C6_Witness ==
  /\ Len(ops) >= 3
  /\ ops[1].status \in Settled /\ ops[2].status \in Settled /\ Running(3)
  /\ ops[2].kind # ops[3].kind

\* C7: a rejection stays with the operation whose body failed, and the
\* operation called next can still start.
C7_RejectionIsLocal ==
  \A i \in OpIds :
    /\ Rejected(i) => (ops[i].err # "none" /\ ops[i].prev = i - 1)
    /\ ( /\ Queued(i)
         /\ \A k \in OpIds : k < i => ops[k].status \in Settled
         /\ \E k \in OpIds : k < i /\ Rejected(k) )
       => ENABLED StartOp(i)

C7_Witness ==
  \E i, j \in OpIds : i < j /\ Rejected(i) /\ Fulfilled(j) /\ IsImport(j)

\* C8: while a read operation executes, no transaction of an earlier write
\* is open on the connection.
C8_ReadsSeeNoOpenTransaction ==
  \A i \in OpIds : (Running(i) /\ ops[i].kind \in ReadKinds) => ~conn.inTxn

\* C9: every database call is issued by an operation enqueued through
\* withDbLock.
C9_CallsComeFromTheChain == issuer = 0 \/ issuer \in OpIds

\* the last record of conversation c in a batch
LastConv(batch, c) ==
  batch[Max({k \in 1..Len(batch) : batch[k].id = c})]

\* C10: after a successful (re-)import, every index entry of an imported
\* conversation id carries a message_id and content of the imported batch,
\* and a term that occurs nowhere in the imported conversation does not
\* find it.
C10_NoStaleIndexEntries ==
  \A j \in OpIds :
    (IsImport(j) /\ Fulfilled(j) /\ LatestStarted(j)) =>
      \A k \in 1..Len(ops[j].arg.batch) :
        LET c == ops[j].arg.batch[k].id
            cv == LastConv(ops[j].arg.batch, c)
            store == Committed(conn)
        IN /\ \A e \in DOMAIN store.fts :
                e.conversation_id = c =>
                  \E n \in 1..Len(cv.messages) :
                    /\ cv.messages[n].id = e.message_id
                    /\ cv.messages[n].content = e.content
           /\ \A q \in Terms :
                ( /\ ~Mentions(cv.title, q)
                  /\ \A n \in 1..Len(cv.messages) : ~Mentions(cv.messages[n].content, q) )
                => c \notin MatchingConversations(store, normalizeQuery(Chars(q)))

C10_Witness ==
  \E i, j \in OpIds :
    /\ i < j /\ IsImport(i) /\ IsImport(j) /\ Fulfilled(i) /\ Fulfilled(j)
    /\ ops[i].arg.batch = BatchFirst /\ ops[j].arg.batch = BatchEdited
    /\ LatestStarted(j)
    /\ "c1" \in MatchingConversations(Committed(conn), normalizeQuery(Chars("bonus")))
    /\ "c1" \notin MatchingConversations(Committed(conn), normalizeQuery(Chars("salary")))

IsClear(i) == ops[i].kind = "clearAllData"

NoRows(store) ==
  /\ DOMAIN store.conversations = {}
  /\ DOMAIN store.messages = {}
  /\ BagCardinality(store.fts) = 0

\* C11: after a successful clearAllData and until the next import starts,
\* the three tables have no rows, getStats returns zero for its three
\* counts, and searchMessages and getAllConversationsForSearch return no
\* rows with totalMatches = 0.
C11_WipeCompleteness ==
  \A j \in OpIds :
    (IsClear(j) /\ Fulfilled(j) /\ \A k \in OpIds : (k > j /\ IsImport(k)) => Queued(k))
    => /\ NoRows(conn.view) /\ NoRows(Committed(conn))
       /\ \A i \in OpIds : (i > j /\ Fulfilled(i)) =>
            /\ ops[i].kind = "getStats" =>
                 (ops[i].reads[1] = 0 /\ ops[i].reads[2] = 0 /\ ops[i].reads[4] = 0)
            /\ ops[i].kind \in {"searchMessages", "getAllConversationsForSearch"} =>
                 (ops[i].reads[1].rows = <<>> /\ ops[i].reads[1].totalMatches = 0)

C11_Witness ==
  \E j, i \in OpIds :
    /\ j < i /\ IsClear(j) /\ Fulfilled(j) /\ Fulfilled(i)
    /\ ~NoRows(ops[j].pre)
    /\ ops[i].kind \in {"getStats", "searchMessages", "getAllConversationsForSearch"}

\* C12: once a clearAllData call has rejected, its transaction is rolled
\* back and the connection shows exactly the rows it showed when the call
\* started.
C12_FailedWipeLeavesDataIntact ==
  \A i \in OpIds :
    (IsClear(i) /\ Rejected(i) /\ LatestStarted(i))
    => (~conn.inTxn /\ conn.view = ops[i].pre)

\* the sum of the backoff delays before attempts 1..n: delay * (1 + .. + n)
BackoffTotal(delay, n) == (delay * n * (n + 1)) \div 2

\* C13: insertConversations and clearAllData make at most 6 attempts, wait
\* 500 ms x attempt before each further attempt, reject with a lock-busy
\* error only when the last of the 6 attempts failed with it, and a call
\* that fulfils (on whichever attempt) has run its whole transaction.
C13_BoundedRetry ==
  \A i \in OpIds :
    LET o == ops[i]
        max == IF IsImport(i) THEN MAX_IMPORT_RETRIES ELSE MAX_CLEAR_RETRIES
        delay == IF IsImport(i) THEN IMPORT_RETRY_DELAY_MS ELSE CLEAR_RETRY_DELAY_MS
    IN (IsImport(i) \/ IsClear(i)) =>
         /\ o.attempt <= max - 1
         /\ o.waited = BackoffTotal(delay, IF o.pc = "backoff" THEN o.attempt - 1
                                            ELSE o.attempt)
         /\ Rejected(i) => o.err # "none"
         /\ (Rejected(i) /\ isDbLockedError(o.err)) => o.attempt = max - 1
         /\ (Fulfilled(i) /\ LatestStarted(i)) =>
               Committed(conn) = IF IsImport(i)
                                 THEN runImportTransaction(o.pre, o.arg.batch)
                                 ELSE DeleteAllConversations(DeleteAllMessages(DeleteAllFts(o.pre)))

C13_Witness ==
  \E i, j \in OpIds :
    /\ IsImport(i) /\ Rejected(i) /\ isDbLockedError(ops[i].err)
    /\ ops[i].attempt = MAX_IMPORT_RETRIES - 1 /\ ops[i].waited = 7500
    /\ IsClear(j) /\ Fulfilled(j) /\ ops[j].attempt >= 1

\* C14: once an import or wipe has rejected with an error that is not
\* lock-busy, its transaction has been rolled back: no transaction is open
\* on the connection.
C14_NonBusyFailureRolledBack ==
  \A i \in OpIds :
    ( /\ IsImport(i) \/ IsClear(i)
      /\ Rejected(i) /\ ~isDbLockedError(ops[i].err)
      /\ LatestStarted(i) )
    => ~conn.inTxn

IsInit(i) == ops[i].kind = "initDatabase"

\* C15: however many times initDatabase is called (also while the body
\* runs and after it has failed), at most one initialisation body is ever
\* enqueued and every call returns the same promise.
C15_InitOnce ==
  /\ Cardinality({i \in OpIds : IsInit(i)}) <= 1
  /\ \A k \in 1..Len(initCalls) :
       /\ initCalls[k] = initCalls[1]
       /\ initCalls[k] = initPromise
       /\ initCalls[k] \in OpIds /\ IsInit(initCalls[k])

C15_Witness ==
  /\ Len(initCalls) >= 3
  /\ Rejected(initPromise)
  /\ \E i \in OpIds : ~IsInit(i) /\ Fulfilled(i)

\* C16: every import, search, stats, browse or wipe operation is enqueued
\* after the initDatabase body, leaves the queue only once that body has
\* settled, and issues no database call before.
C16_InitSettlesFirst ==
  /\ \A i \in OpIds :
       ~IsInit(i) =>
         /\ initPromise # 0 /\ initPromise < i
         /\ ~Queued(i) => ops[initPromise].status \in Settled
  /\ (issuer \in OpIds /\ ~IsInit(issuer)) => ops[initPromise].status \in Settled

C16_Witness ==
  \E i \in OpIds :
    /\ ~IsInit(i) /\ Running(i) /\ issuer = i
    /\ Fulfilled(initPromise)
    /\ \E k \in OpIds : k > i /\ Queued(k)

\* C17: once the initDatabase body has rejected, no other operation
\* leaves the queue.
C17_InitFailureIsFatal ==
  (initPromise # 0 /\ Rejected(initPromise))
  => \A i \in OpIds : ~IsInit(i) => Queued(i)

C19_ReadsNeverRetry ==
  [][\A i \in OpIds :
       (ops[i].kind \in ReadKinds /\ Running(i) /\ faults' = faults + 1)
       => /\ ops'[i].status = "rejected"
          /\ ops'[i].err \in {"busy", "other"}
          /\ ops'[i].attempt = 0]_vars

C19_Witness ==
  \E i \in OpIds :
    /\ ops[i].kind = "getStats" /\ Rejected(i) /\ isDbLockedError(ops[i].err)
    /\ Len(ops[i].reads) >= 1 /\ ops[i].attempt = 0

\* C20: in the committed store, the conversation_id of every message row
\* is the id of a conversation row.
C20_MessagesReferenceConversations ==
  LET store == Committed(conn) IN
  \A m \in DOMAIN store.messages :
    store.messages[m].conversation_id \in DOMAIN store.conversations

C20_Witness ==
  \E j, i \in OpIds :
    /\ j < i /\ IsClear(j) /\ Fulfilled(j) /\ ~NoRows(ops[j].pre)
    /\ IsImport(i) /\ Fulfilled(i)
    /\ DOMAIN Committed(conn).messages # {}

\* ---------------------------------------------------------------------
\* Properties of the search page calls
\* ---------------------------------------------------------------------

IsSearch(i) == ops[i].kind = "searchMessages"
IsBrowse(i) == ops[i].kind = "getAllConversationsForSearch"
IsActivity(i) == ops[i].kind = "getActivityCountByDay"

\* the query is empty, whitespace-only or without any letter or digit
NoLetterOrDigit(query) == \A k \in 1..Len(query) : ~IsAlnum(query[k])

\* the conversations of a list of result rows, in order
ConversationIds(rows) == [k \in 1..Len(rows) |-> rows[k].conversation_id]

\* C21: a search whose query is empty, whitespace-only or without any
\* letter or digit is answered with {rows: [], totalMatches: 0,
\* totalOccurrences: 0} as a success, whatever the store contains, and
\* without a statement: it never becomes an operation of the chain, and
\* the step that answers it issues no database call.
C21_EmptyQueryAnsweredLocally ==
  /\ [](/\ \A k \in 1..Len(resolved) :
             /\ NoLetterOrDigit(resolved[k].query)
             /\ resolved[k].value.rows = <<>>
             /\ resolved[k].value.totalMatches = 0
             /\ resolved[k].value.totalOccurrences = 0
        /\ \A i \in OpIds : IsSearch(i) => ~NoLetterOrDigit(ops[i].arg.query))
  /\ [][resolved' # resolved =>
          /\ Len(resolved') = Len(resolved) + 1
          /\ conn' = conn /\ issuer' = issuer /\ faults' = faults
          /\ ops' = ops /\ dbLock' = dbLock]_vars

C21_Witness ==
  /\ \E k \in 1..Len(resolved) : resolved[k].query = <<"?", "!">>
  /\ DOMAIN conn.view.conversations # {}
  /\ BagCardinality(conn.view.fts) > 0

\* C22: a search with an empty or whitespace-only query returns the
\* conversations that getAllConversationsForSearch({}) returns on the
\* same store, in the same order.
C22_EmptyQueryBrowses ==
  \A k \in 1..Len(resolved) :
    Trim(resolved[k].query) = <<>> =>
      \E b \in BrowseOutcomes(conn.view, NoOpts) :
         ConversationIds(resolved[k].value.rows) = ConversationIds(b.rows)

\* search j asks for the page that follows the first page i of the same
\* query, options and page size
NextPageOf(i, j) ==
  /\ IsSearch(i) /\ IsSearch(j) /\ i < j
  /\ ops[j].arg.query = ops[i].arg.query
  /\ ops[i].status = "fulfilled" /\ ops[j].status = "fulfilled"
  /\ ops[i].reads[2].safeOffset = 0
  /\ ops[i].reads[2].safeLimit <= 50
  /\ ops[j].arg.opts = [ops[i].arg.opts EXCEPT !.offset = Num(ops[i].reads[2].safeLimit)]

\* C23: on an unchanged store, the rows of a first page (limit n, offset 0)
\* followed by the rows of the next page (limit n, offset n) are, in
\* order, the rows of one search with limit 2n and offset 0: no
\* conversation is on both pages and none is skipped.
C23_PaginationConsistency ==
  \A i, j \in OpIds :
    NextPageOf(i, j) =>
      /\ \A a \in 1..Len(ops[i].reads[1].rows), b \in 1..Len(ops[j].reads[1].rows) :
            ops[i].reads[1].rows[a].conversation_id # ops[j].reads[1].rows[b].conversation_id
      /\ \E both \in SearchOutcomes(conn.view, Trim(ops[i].arg.query),
                       [ops[i].arg.opts EXCEPT !.limit = Num(2 * ops[i].reads[2].safeLimit)]) :
            both.rows = ops[i].reads[1].rows \o ops[j].reads[1].rows

\* the string s contains the string x
Contains(s, x) ==
  \E k \in 0..(Len(s) - Len(x)) : SubSeq(s, k + 1, k + Len(x)) = x

\* the title contains the raw query, case-insensitively
TitleMatch(title, query) == Contains(Lower(Str(title)), Lower(Trim(query)))

\* C24: in the rows of a search sorted by relevance, a conversation whose
\* title contains the raw query comes before every conversation without a
\* title match that has exactly 5 occurrences in its messages, whatever
\* its own occurrence count and the message times are.
C24_TitleMatchRanksFirst ==
  \A i \in OpIds :
    (IsSearch(i) /\ Fulfilled(i) /\ ops[i].arg.opts.sort = "relevance") =>
      LET rows == ops[i].reads[1].rows IN
      \A a, b \in 1..Len(rows) :
        ( /\ TitleMatch(rows[a].title, ops[i].arg.query)
          /\ ~TitleMatch(rows[b].title, ops[i].arg.query)
          /\ rows[b].occurrence_count = 5 )
        => a < b

\* {rows, totalMatches, totalOccurrences} as the selects of search i returned them
ResultOf(i) == ops[i].reads[1]

\* C25: on the store that holds the one conversation "Budget Planning"
\* with the messages "salary increase" and "weather today", the searches
\* "salary", "salary*" and "sal" each return exactly that conversation,
\* with totalMatches = 1, occurrence_count = 1 and message_match_count = 1.
C25_PrefixNormalization ==
  \A i \in OpIds :
    ( /\ IsSearch(i) /\ Fulfilled(i)
      /\ ops[i].pre = runImportTransaction(CurrentSchema, BatchFirst)
      /\ ops[i].arg.opts = NoOpts
      /\ ops[i].arg.query \in
           {Chars("salary"), Append(Chars("salary"), "*"), <<"s", "a", "l">>} )
    => /\ ResultOf(i).totalMatches = 1
       /\ ConversationIds(ResultOf(i).rows) = <<"c1">>
       /\ ResultOf(i).rows[1].occurrence_count = 1
       /\ ResultOf(i).rows[1].message_match_count = 1

Min2(a, b) == IF a <= b THEN a ELSE b
Max2(a, b) == IF a <= b THEN b ELSE a

\* min(100, max(1, floor(limit))), or the default when limit is absent
\* or not finite
EffectiveLimit(limit, default) ==
  IF limit.kind = "finite" THEN Min2(100, Max2(1, limit.twice \div 2)) ELSE default

\* max(0, floor(offset)), or 0 when offset is absent or not finite
EffectiveOffset(offset) ==
  IF offset.kind = "finite" THEN Max2(0, offset.twice \div 2) ELSE 0

\* C26: a search (default 20) or browse (default 50) uses the limit
\* min(100, max(1, floor(limit))) and the offset max(0, floor(offset)),
\* and returns exactly min(L, max(0, totalMatches - O)) rows, never more
\* than 100.
C26_LimitAndOffset ==
  \A i \in OpIds :
    ((IsSearch(i) \/ IsBrowse(i)) /\ Fulfilled(i)) =>
      LET L == EffectiveLimit(ops[i].arg.opts.limit, IF IsSearch(i) THEN 20 ELSE 50)
          O == EffectiveOffset(ops[i].arg.opts.offset)
      IN /\ ops[i].reads[2].safeLimit = L
         /\ ops[i].reads[2].safeOffset = O
         /\ Len(ResultOf(i).rows) = Min2(L, Max2(0, ResultOf(i).totalMatches - O))
         /\ Len(ResultOf(i).rows) <= 100

C26_Witness ==
  \E i \in OpIds :
    /\ IsSearch(i) /\ Fulfilled(i)
    /\ ops[i].arg.opts.limit = Halves(3)
    /\ ResultOf(i).totalMatches = 2
    /\ Len(ResultOf(i).rows) = 1

\* the index rows that match the query of search i and whose conversation
\* and message pass its filters
MatchingEntries(i) ==
  LET store == ops[i].pre
      opts == ops[i].arg.opts
  IN {e \in DOMAIN store.fts :
        /\ e.conversation_id \in DOMAIN store.conversations
        /\ e.message_id \in DOMAIN store.messages
        /\ Matches(e, normalizeQuery(Trim(ops[i].arg.query)))
        /\ opts.source # "" => store.conversations[e.conversation_id].source = opts.source
        /\ opts.dateFrom.kind = "finite" =>
             opts.dateFrom.twice <= 2 * store.messages[e.message_id].created_at
        /\ opts.dateTo.kind = "finite" =>
             2 * store.messages[e.message_id].created_at <= opts.dateTo.twice}

\* the same search without paging and sort order
Unpaged(i) ==
  [NoOpts EXCEPT !.source = ops[i].arg.opts.source,
                 !.dateFrom = ops[i].arg.opts.dateFrom,
                 !.dateTo = ops[i].arg.opts.dateTo,
                 !.limit = Num(100)]

RECURSIVE SumOccurrenceCounts(_)
SumOccurrenceCounts(rows) ==
  IF Len(rows) = 0 THEN 0
  ELSE rows[1].occurrence_count + SumOccurrenceCounts(Tail(rows))

\* C27: whatever limit, offset and sort a search is made with,
\* totalMatches is the number of distinct conversations with a matching
\* message under the filters, and totalOccurrences is the sum of
\* occurrence_count over all of them, as the unpaged search lists them.
C27_TotalsIndependentOfPaging ==
  \A i \in OpIds :
    (IsSearch(i) /\ Fulfilled(i)) =>
      /\ ResultOf(i).totalMatches =
           Cardinality({e.conversation_id : e \in MatchingEntries(i)})
      /\ \A all \in SearchOutcomes(ops[i].pre, Trim(ops[i].arg.query), Unpaged(i)) :
           /\ ResultOf(i).totalMatches = Len(all.rows)
           /\ ResultOf(i).totalOccurrences = SumOccurrenceCounts(all.rows)

C27_Witness ==
  \E i \in OpIds :
    /\ IsSearch(i) /\ Fulfilled(i)
    /\ ops[i].arg.opts.limit = Num(1) /\ ops[i].arg.opts.offset = Num(1)
    /\ ResultOf(i).totalMatches = 2
    /\ ResultOf(i).totalOccurrences = 2
    /\ Len(ResultOf(i).rows) = 1
    /\ ResultOf(i).rows[1].occurrence_count = 1

\* C28: a search with a source filter returns only conversations of that
\* source; with dateFrom / dateTo it finds exactly the conversations that
\* have a matching message with dateFrom <= created_at <= dateTo (bounds
\* included, an unknown time being 0) and counts only those messages;
\* the filters hold together with the text match.
C28_Filters ==
  \A i \in OpIds :
    (IsSearch(i) /\ Fulfilled(i)) =>
      LET rows == ResultOf(i).rows
          opts == ops[i].arg.opts
          mine(c) == {e \in MatchingEntries(i) : e.conversation_id = c}
      IN /\ \A k \in 1..Len(rows) :
              /\ opts.source # "" => rows[k].source = opts.source
              /\ mine(rows[k].conversation_id) # {}
              /\ rows[k].message_match_count =
                   Cardinality({e.message_id : e \in mine(rows[k].conversation_id)})
              /\ opts.dateFrom.kind = "finite" =>
                   opts.dateFrom.twice <= 2 * rows[k].last_occurrence
              /\ opts.dateTo.kind = "finite" =>
                   2 * rows[k].last_occurrence <= opts.dateTo.twice
         /\ Len(rows) = ResultOf(i).totalMatches =>
              Range(ConversationIds(rows)) = {e.conversation_id : e \in MatchingEntries(i)}

C28_Witness ==
  \E i \in OpIds :
    /\ IsSearch(i) /\ Fulfilled(i)
    /\ ops[i].pre = runImportTransaction(CurrentSchema, BatchFirst)
    /\ ops[i].arg.query = Chars("budget")
    /\ ops[i].arg.opts.source = "claude"
    /\ ops[i].arg.opts.dateFrom = Num(20) /\ ops[i].arg.opts.dateTo = Num(20)
    /\ Len(ResultOf(i).rows) = 1
    /\ ResultOf(i).rows[1].message_match_count = 1
    /\ ResultOf(i).rows[1].last_occurrence = 20

\* the local calendar day of time t where the clocks are tz ahead of UTC
LocalDay(t, tz) == (t + tz) \div oneDayMs

\* the messages of the store that were created on local day d
MessagesOfDay(store, d, tz) ==
  {m \in DOMAIN store.messages : LocalDay(store.messages[m].created_at, tz) = d}

\* C29: getActivityCountByDay(days) returns an array of length days,
\* whatever days is; its last entry is the number of messages of the
\* current day, the entry before that of the day before, back to the
\* oldest day at index 0; a day without messages has 0.
C29_ActivityByDay ==
  \A i \in OpIds :
    (IsActivity(i) /\ Fulfilled(i)) =>
      LET result == ops[i].reads[1]
          now == ops[i].reads[2].now
          tz == ops[i].reads[2].tz
      IN /\ ops[i].arg.days.kind = "finite"
         /\ 2 * Len(result) = ops[i].arg.days.twice
         /\ \A k \in 1..Len(result) :
              result[k] =
                Cardinality(MessagesOfDay(ops[i].pre, LocalDay(now, tz) - (Len(result) - k), tz))

IsReentrant(i) == ops[i].kind = "reentrant"

\* C30: once an operation that holds its turn awaits a nested withDbLock
\* call, the nested operation stays queued, the outer operation stays
\* where it is and never settles, and every operation enqueued after the
\* outer one stays queued.
C30_NotReentrant ==
  /\ [](\A i \in OpIds :
          (IsReentrant(i) /\ ops[i].pc = "await" /\ ops[i].inner # 0) =>
             /\ Running(i)
             /\ Queued(ops[i].inner)
             /\ \A k \in OpIds : k > i => Queued(k))
  /\ [][\A i \in OpIds :
          (IsReentrant(i) /\ ops[i].pc = "await" /\ ops[i].inner # 0) =>
             /\ ops'[i] = ops[i]
             /\ \A k \in OpIds : k > i => ops'[k] = ops[k]]_vars

C30_Witness ==
  \E i \in OpIds :
    /\ IsReentrant(i) /\ ops[i].pc = "await" /\ ops[i].inner # 0
    /\ \E k \in OpIds : k > i /\ k # ops[i].inner /\ Queued(k)
    /\ \A k \in OpIds : k < i => ops[k].status \in Settled

\* ---------------------------------------------------------------------
\* Properties of the rows an import and the initialisation leave
\* ---------------------------------------------------------------------

\* every conversation id and message id of store a is still in store b
KeepsIds(a, b) ==
  /\ DOMAIN a.conversations \subseteq DOMAIN b.conversations
  /\ DOMAIN a.messages \subseteq DOMAIN b.messages

IssuedBy(kind) == issuer' \in OpIds /\ ops[issuer'].kind = kind

\* C31: insertConversations never removes a conversation or message row:
\* once an import has settled the connection still shows every id it showed
\* when the import started, and the committed id sets shrink only in a step
\* of clearAllData.
C31_ImportsOnlyAddRows ==
  /\ [](\A i \in OpIds :
          (IsImport(i) /\ ops[i].status \in Settled /\ LatestStarted(i))
          => KeepsIds(ops[i].pre, conn.view))
  /\ [][~KeepsIds(Committed(conn), Committed(conn')) => IssuedBy("clearAllData")]_vars

\* a re-import of c1 without m2 has committed and m2 is still stored
C31_Witness ==
  /\ \E i, j \in OpIds :
       /\ i < j /\ IsImport(i) /\ IsImport(j) /\ Fulfilled(i) /\ Fulfilled(j)
       /\ ops[i].arg.batch = BatchFirst /\ ops[j].arg.batch = BatchEdited
       /\ LatestStarted(j)
  /\ <<"c1", "m2">> \in DOMAIN Committed(conn).messages
  /\ Committed(conn).messages[<<"c1", "m1">>].content = BonusText

\* the index entries a store has when it holds exactly one entry per
\* message row, with the message's content and its conversation's title
MirrorOfMessages(store) ==
  SetToBag({[content |-> store.messages[m].content,
             title |-> store.conversations[store.messages[m].conversation_id].title,
             conversation_id |-> store.messages[m].conversation_id,
             message_id |-> m] : m \in DOMAIN store.messages})

\* the initialisation has fulfilled and nothing has started since
InitDone(i) == IsInit(i) /\ Fulfilled(i) /\ LatestStarted(i)

SchemaIsCurrent(store) == store.tables["conversations"] # "legacy"

IndexCreatedByInit(store) == store.tables["messages_fts"] # "current"

\* C32: when initDatabase runs on a current schema whose index is empty or
\* is (re)created by the run, it finishes with exactly one index entry per
\* message row, carrying the message's content and its conversation's
\* title; when the index exists and is not empty it is left unchanged.
C32_Backfill ==
  \A i \in OpIds :
    (InitDone(i) /\ SchemaIsCurrent(ops[i].pre)) =>
      IF IndexCreatedByInit(ops[i].pre) \/ ops[i].pre.fts = EmptyBag
      THEN /\ conn.view.fts = MirrorOfMessages(conn.view)
           /\ \A c \in ConvIds : FtsCount(conn.view, c) = MsgCount(conn.view, c)
      ELSE conn.view.fts = ops[i].pre.fts

\* an index without title column was re-created and back-filled with the
\* two messages that are stored for c1
C32_Witness ==
  \E i \in OpIds :
    /\ InitDone(i)
    /\ ops[i].pre.tables["messages_fts"] = "legacy"
    /\ SchemaIsCurrent(ops[i].pre)
    /\ BagCardinality(conn.view.fts) = 2
    /\ \A e \in DOMAIN conn.view.fts : e.title = PlansTitle

\* C33: when the conversations table lacks updated_at, a fulfilled
\* initDatabase leaves the three tables with the current schema and
\* without rows; otherwise it leaves every conversation and message row
\* as it was.
C33_Migration ==
  \A i \in OpIds :
    InitDone(i) =>
      IF ~SchemaIsCurrent(ops[i].pre)
      THEN /\ \A t \in TableNames : conn.view.tables[t] = "current"
           /\ NoRows(conn.view)
      ELSE /\ conn.view.conversations = ops[i].pre.conversations
           /\ conn.view.messages = ops[i].pre.messages

\* a legacy file that held rows has been migrated
C33_Witness ==
  \E i \in OpIds :
    /\ InitDone(i)
    /\ ~SchemaIsCurrent(ops[i].pre)
    /\ DOMAIN ops[i].pre.messages # {}
    /\ NoRows(conn.view)

\* ---------------------------------------------------------------------
\* Properties of the database calls of an operation
\* ---------------------------------------------------------------------

\* the database calls issued by the first n operations and not returned
RECURSIVE CallsInFlight(_)
CallsInFlight(n) ==
  IF n = 0 THEN 0 ELSE ops[n].inflight + CallsInFlight(n - 1)

\* C34: no two database calls are in flight at the same time: a call is
\* issued only after the call before it has returned.
C34_OneCallInFlight == CallsInFlight(Len(ops)) <= 1

\* ---------------------------------------------------------------------
\* Properties of the grouped result rows
\* ---------------------------------------------------------------------

\* the messages of conversation c that the search of operation i matched
MatchedMessages(i, c) ==
  {e.message_id : e \in {x \in MatchingEntries(i) : x.conversation_id = c}}

\* the occurrences of the lower-cased query in the messages msgs, summed
RECURSIVE OccurrencesIn(_, _, _)
OccurrencesIn(store, msgs, q) ==
  IF msgs = {} THEN 0
  ELSE LET m == CHOOSE x \in msgs : TRUE
       IN OccurrenceInMessage(Str(store.messages[m].content), q)
          + OccurrencesIn(store, msgs \ {m}, q)

\* C35: a search returns at most one row per conversation; the row's
\* occurrence_count is the sum of the occurrence counts of the
\* conversation's matching messages, message_match_count their number,
\* last_occurrence their latest created_at, and first_match_message_id one
\* of them with the earliest created_at.
C35_Grouping ==
  \A i \in OpIds :
    (IsSearch(i) /\ Fulfilled(i)) =>
      LET rows == ResultOf(i).rows
          store == ops[i].pre
      IN /\ \A k, l \in 1..Len(rows) :
              k # l => rows[k].conversation_id # rows[l].conversation_id
         /\ \A k \in 1..Len(rows) :
              LET msgs == MatchedMessages(i, rows[k].conversation_id)
                  times == {store.messages[m].created_at : m \in msgs}
              IN /\ msgs # {}
                 /\ rows[k].occurrence_count =
                      OccurrencesIn(store, msgs, Lower(Trim(ops[i].arg.query)))
                 /\ rows[k].message_match_count = Cardinality(msgs)
                 /\ rows[k].last_occurrence \in times
                 /\ \A t \in times : t <= rows[k].last_occurrence
                 /\ rows[k].first_match_message_id \in msgs
                 /\ \A t \in times :
                      store.messages[rows[k].first_match_message_id].created_at <= t

\* a conversation with two matching messages of the same time, the second
\* of them reported as the first match
C35_Witness ==
  \E i \in OpIds :
    /\ IsSearch(i) /\ Fulfilled(i)
    /\ \E k \in 1..Len(ResultOf(i).rows) :
         /\ ResultOf(i).rows[k].message_match_count = 2
         /\ ResultOf(i).rows[k].occurrence_count = 3
         /\ ResultOf(i).rows[k].first_match_message_id = <<"c2", "m3">>

\* ---------------------------------------------------------------------
\* Properties of retrying and failing writes
\* ---------------------------------------------------------------------

\* operation i has met a lock-busy error and has not settled yet: it waits
\* for its next attempt or is making it
Retrying(i) ==
  /\ Running(i) /\ (IsImport(i) \/ IsClear(i))
  /\ (ops[i].attempt > 0 \/ ops[i].pc = "backoff")

\* C36: while an insertConversations or clearAllData is between a
\* lock-busy error and its settling, back-off waits included, no other
\* operation is running and every operation called after it is still
\* queued.
C36_BackoffKeepsTurn ==
  \A i \in OpIds :
    Retrying(i) =>
      \A k \in OpIds \ {i} : ~Running(k) /\ (k > i => Queued(k))

\* an import waits for its third attempt while a wipe is queued behind it
C36_Witness ==
  \E i, j \in OpIds :
    /\ i < j /\ IsImport(i) /\ Running(i)
    /\ ops[i].pc = "backoff" /\ ops[i].attempt = 2
    /\ IsClear(j) /\ Queued(j)

\* C37: once an insertConversations or clearAllData has settled, with
\* success or with an error, no transaction is open on the connection when
\* the next operation starts.
C37_NoTransactionLeftOpen ==
  \A i \in OpIds :
    ((IsImport(i) \/ IsClear(i)) /\ ops[i].status \in Settled /\ LatestStarted(i))
    => ~conn.inTxn

\* the conversation row, the message rows and the index entries that a
\* store holds for conversation id c
RowsOf(store, c) ==
  [conversations |-> {store.conversations[k] : k \in DOMAIN store.conversations \cap {c}},
   messages |-> {store.messages[m] :
                   m \in {x \in DOMAIN store.messages :
                            store.messages[x].conversation_id = c}},
   fts |-> [e \in {x \in DOMAIN store.fts : x.conversation_id = c} |-> store.fts[e]]]

\* the conversation ids of a batch
BatchIds(batch) == {batch[k].id : k \in 1..Len(batch)}

\* C38: a successful insertConversations leaves the conversation row, the
\* message rows and the index entries of every conversation id that is not
\* in its batch as they were (no message id of the model's batches is
\* stored under another conversation).
C38_ImportFrame ==
  \A i \in OpIds :
    (IsImport(i) /\ Fulfilled(i) /\ LatestStarted(i)) =>
      \A c \in ConvIds \ BatchIds(ops[i].arg.batch) :
        RowsOf(conn.view, c) = RowsOf(ops[i].pre, c)

\* c1 has been re-imported on a file that also holds c2 with its message
\* and index entry
C38_Witness ==
  \E i \in OpIds :
    /\ IsImport(i) /\ Fulfilled(i) /\ LatestStarted(i)
    /\ ops[i].arg.batch = BatchEdited
    /\ conn.view.conversations["c1"].title = PlansTitle
    /\ "c2" \in DOMAIN ops[i].pre.conversations
    /\ MsgCount(conn.view, "c2") = 1 /\ FtsCount(conn.view, "c2") = 1

\* ---------------------------------------------------------------------
\* Progress of the chain
\* ---------------------------------------------------------------------

\* C39: when every database call returns and no operation re-enters the
\* serializer, every operation enqueued with withDbLock eventually starts
\* and eventually settles, whatever the operations before it do.
C39_EveryOperationSettles ==
  \A i \in 1..MaxOps :
    /\ (Len(ops) >= i) ~> (Len(ops) >= i /\ ~Queued(i))
    /\ (Len(ops) >= i) ~> (Len(ops) >= i /\ ops[i].status \in Settled)

\* an import has settled after a retry, behind an operation that rejected
C39_Witness ==
  \E i, j \in OpIds :
    /\ i < j /\ Rejected(i)
    /\ IsImport(j) /\ Fulfilled(j) /\ ops[j].attempt > 0

====
